---- MODULE Spec2Model ----
(***************************************************************************)
(* Role-normalized attribution engine of calcio-analytics-platform:        *)
(*   app/analytics/league_distribution.py   (distribution builder)         *)
(*   app/analytics/attribution_engine.py    (attribution scorer)           *)
(*                                                                         *)
(* Conventions of the model                                                *)
(*   - Python None is the empty tuple, a present value x is <<x>>.         *)
(*   - Strings are TLA+ strings; str.strip / str.lower are computed        *)
(*     character by character.                                             *)
(*   - Percentiles, scores and maluses are fixed-point integers in tenths  *)
(*     of a point (round(x, 1) keeps one decimal); unrounded              *)
(*     intermediate values (tier scores, base score, raw malus) are exact  *)
(*     fractions [n, d] of tenths.  round() is Python's round-half-even,   *)
(*     applied to the exact fraction.                                      *)
(*   - A metric value is an integer in the metric's own unit (minutes,     *)
(*     thousandths for per-90 rates, tenths for percentages); the scorer   *)
(*     only compares values of one metric with each other.                 *)
(***************************************************************************)
EXTENDS Integers, Sequences, FiniteSets, TLC

VARIABLES
    player_metrics,   \* argument of calculate_player_score: the derived record
    role_dists,       \* argument of calculate_player_score: role -> metric -> list
    position,         \* argument of calculate_player_score: optional role override
    result,           \* value returned by the last call (None before any call)
    frame,            \* locals of the last call as they were at its return
    first_call,       \* arguments and result of an earlier, remembered call
    raw,              \* argument of normalize_position
    normalized,       \* value returned by normalize_position (None before the call)
    db,               \* the database build_role_distributions reads
    player_cache,     \* player_metrics_cache returned by build_role_distributions
    calls,            \* concurrent invocations of calculate_player_score
    engine,           \* the attribution_engine module: its ROLE_CONFIGS, imported or not
    probe,            \* one call of a helper function: its arguments and its value
    service           \* get_team_players of the service: its stage and its last row

vars == <<player_metrics, role_dists, position, result, frame, first_call,
          raw, normalized, db, player_cache, calls, engine,
          probe, service>>

-----------------------------------------------------------------------------
(* Python values *)

None == << >>
Some(x) == <<x>>
IsNone(o) == o = None
Val(o) == o[1]

EmptyDict == << >>

\* dict.get(key, default)
DictGet(d, k, default) == IF k \in DOMAIN d THEN d[k] ELSE default

Min2(a, b) == IF a <= b THEN a ELSE b
Max2(a, b) == IF a >= b THEN a ELSE b

RECURSIVE SumOver(_, _)
SumOver(f, S) ==
    IF S = {} THEN 0
    ELSE LET x == CHOOSE y \in S : TRUE
         IN f[x] + SumOver(f, S \ {x})

\* round() of the fraction n/d (d > 0) to an integer, ties to even.
Round(n, d) ==
    LET q == n \div d
        r == n % d
    IN IF 2 * r < d THEN q
       ELSE IF 2 * r > d THEN q + 1
       ELSE IF q % 2 = 0 THEN q ELSE q + 1

-----------------------------------------------------------------------------
(* attribution_engine.py: constants and role configuration *)

MIN_MINUTES == 300
RELIABILITY_MINUTES == 1200

INVERSE_METRICS == {"goals_conceded_per_90"}
DIRECT_SCORE_METRICS == {"captain"}

GOALKEEPER_CONFIG ==
    [tier_a |-> [weight |-> 70,
                 metrics |-> ("saves_per_90" :> 25) @@ ("goals_conceded_per_90" :> 25)
                          @@ ("clean_sheet_rate" :> 15) @@ ("penalty_saved_rate" :> 5)],
     tier_b |-> [weight |-> 20,
                 metrics |-> ("pass_accuracy" :> 8) @@ ("distribution_quality" :> 5)
                          @@ ("minutes" :> 7)],
     tier_c |-> [weight |-> 10,
                 metrics |-> ("match_decisive_saves" :> 10)],
     malus  |-> ("yellow_per_90" :> -4) @@ ("red_per_90" :> -6)]

DEFENDER_CONFIG ==
    [tier_a |-> [weight |-> 65,
                 metrics |-> ("tackles_per_90" :> 15) @@ ("interceptions_per_90" :> 12)
                          @@ ("blocks_per_90" :> 8) @@ ("duels_won_pct" :> 15)
                          @@ ("clean_sheet_rate" :> 15)],
     tier_b |-> [weight |-> 20,
                 metrics |-> ("pass_accuracy" :> 8) @@ ("progressive_passes" :> 5)
                          @@ ("minutes" :> 7)],
     tier_c |-> [weight |-> 15,
                 metrics |-> ("goals_per_90" :> 8) @@ ("match_decisive_actions" :> 7)],
     malus  |-> ("yellow_per_90" :> -4) @@ ("red_per_90" :> -6)]

MIDFIELDER_CONFIG ==
    [tier_a |-> [weight |-> 60,
                 metrics |-> ("key_passes_per_90" :> 14) @@ ("assists_per_90" :> 12)
                          @@ ("pass_accuracy" :> 12) @@ ("tackles_per_90" :> 10)
                          @@ ("duels_won_pct" :> 12)],
     tier_b |-> [weight |-> 25,
                 metrics |-> ("progressive_actions" :> 8) @@ ("ball_recoveries" :> 8)
                          @@ ("minutes" :> 9)],
     tier_c |-> [weight |-> 15,
                 metrics |-> ("goals_per_90" :> 8) @@ ("match_impact_index" :> 7)],
     malus  |-> ("yellow_per_90" :> -4) @@ ("red_per_90" :> -6)]

ATTACKER_CONFIG ==
    [tier_a |-> [weight |-> 70,
                 metrics |-> ("goals_per_90" :> 25) @@ ("shots_on_per_90" :> 12)
                          @@ ("xG_per_90" :> 10) @@ ("assists_per_90" :> 13)
                          @@ ("dribbles_success_pct" :> 10)],
     tier_b |-> [weight |-> 20,
                 metrics |-> ("key_passes_per_90" :> 8) @@ ("pass_accuracy" :> 5)
                          @@ ("minutes" :> 7)],
     tier_c |-> [weight |-> 10,
                 metrics |-> ("match_winning_goals" :> 6) @@ ("points_contribution" :> 4)],
     malus  |-> ("yellow_per_90" :> -4) @@ ("red_per_90" :> -6)]

ROLE_CONFIGS ==
    ("Goalkeeper" :> GOALKEEPER_CONFIG) @@ ("Defender" :> DEFENDER_CONFIG)
    @@ ("Midfielder" :> MIDFIELDER_CONFIG) @@ ("Attacker" :> ATTACKER_CONFIG)

CATEGORY_METRICS ==
    [attack   |-> {"goals_per_90", "shots_on_per_90", "shot_accuracy_pct",
                   "xG_per_90", "dribbles_success_pct"},
     creation |-> {"assists_per_90", "key_passes_per_90", "pass_accuracy",
                   "progressive_passes", "progressive_actions",
                   "distribution_quality"},
     defense  |-> {"tackles_per_90", "interceptions_per_90", "duels_won_pct",
                   "blocks_per_90", "saves_per_90", "goals_conceded_per_90",
                   "clean_sheet_rate", "ball_recoveries"},
     impact   |-> {"minutes", "rating", "appearances",
                   "match_winning_goals", "points_contribution",
                   "match_decisive_saves", "match_decisive_actions",
                   "match_impact_index", "captain"}]

TierNames == <<"tier_a", "tier_b", "tier_c">>

-----------------------------------------------------------------------------
(* league_distribution.py: normalisation of position labels *)

UpperLetters == "ABCDEFGHIJKLMNOPQRSTUVWXYZ"
LowerLetters == "abcdefghijklmnopqrstuvwxyz"
Whitespace == {" ", "\t", "\n"}

CharAt(s, i) == SubSeq(s, i, i)

\* One character of str.lower()
LowerChar(c) ==
    LET hits == {i \in 1..Len(UpperLetters) : CharAt(UpperLetters, i) = c}
    IN IF hits = {} THEN c ELSE CharAt(LowerLetters, CHOOSE i \in hits : TRUE)

\* str.lower()
RECURSIVE lower(_)
lower(s) == IF Len(s) = 0 THEN "" ELSE LowerChar(CharAt(s, 1)) \o lower(Tail(s))

RECURSIVE lstrip(_)
lstrip(s) ==
    IF Len(s) > 0 /\ CharAt(s, 1) \in Whitespace THEN lstrip(Tail(s)) ELSE s

RECURSIVE rstrip(_)
rstrip(s) ==
    IF Len(s) > 0 /\ CharAt(s, Len(s)) \in Whitespace
    THEN rstrip(SubSeq(s, 1, Len(s) - 1)) ELSE s

\* str.strip()
strip(s) == rstrip(lstrip(s))

_POSITION_MAP ==
    ("goalkeeper" :> "Goalkeeper")
    @@ ("defender" :> "Defender") @@ ("centre-back" :> "Defender")
    @@ ("center-back" :> "Defender") @@ ("right-back" :> "Defender")
    @@ ("left-back" :> "Defender")
    @@ ("midfielder" :> "Midfielder") @@ ("defensive midfield" :> "Midfielder")
    @@ ("central midfield" :> "Midfielder") @@ ("attacking midfield" :> "Midfielder")
    @@ ("right midfield" :> "Midfielder") @@ ("left midfield" :> "Midfielder")
    @@ ("attacker" :> "Attacker") @@ ("forward" :> "Attacker")
    @@ ("striker" :> "Attacker") @@ ("centre-forward" :> "Attacker")
    @@ ("right winger" :> "Attacker") @@ ("left winger" :> "Attacker")
    @@ ("second striker" :> "Attacker") @@ ("winger" :> "Attacker")

VALID_ROLES == {"Goalkeeper", "Defender", "Midfielder", "Attacker"}

\* Mutant of normalize_position: the label is looked up without strip().
NormalizeUnstripped(raw_label) ==
    IF raw_label = None \/ Val(raw_label) = "" THEN "Midfielder"
    ELSE LET key == lower(Val(raw_label))
         IN IF key \in DOMAIN _POSITION_MAP THEN _POSITION_MAP[key]
            ELSE IF Val(raw_label) \in VALID_ROLES THEN Val(raw_label)
            ELSE "Midfielder"

\* normalize_position(raw): raw_label is None or <<string>>.
normalize_position(raw_label) ==
    IF raw_label = None \/ Val(raw_label) = "" THEN "Midfielder"
    ELSE LET key == lower(strip(Val(raw_label)))
         IN IF key \in DOMAIN _POSITION_MAP THEN _POSITION_MAP[key]
            ELSE IF Val(raw_label) \in VALID_ROLES THEN Val(raw_label)
            ELSE "Midfielder"

-----------------------------------------------------------------------------
(* league_distribution.py: percentile lookup *)

\* bisect.bisect_left(a, x): binary search, 0-based result.
RECURSIVE BisectLeftLoop(_, _, _, _)
BisectLeftLoop(a, x, lo, hi) ==
    IF lo < hi
    THEN LET mid == (lo + hi) \div 2
         IN IF a[mid + 1] < x
            THEN BisectLeftLoop(a, x, mid + 1, hi)
            ELSE BisectLeftLoop(a, x, lo, mid)
    ELSE lo

bisect_left(a, x) == BisectLeftLoop(a, x, 0, Len(a))

\* bisect.bisect_right(a, x)
RECURSIVE BisectRightLoop(_, _, _, _)
BisectRightLoop(a, x, lo, hi) ==
    IF lo < hi
    THEN LET mid == (lo + hi) \div 2
         IN IF x < a[mid + 1]
            THEN BisectRightLoop(a, x, lo, mid)
            ELSE BisectRightLoop(a, x, mid + 1, hi)
    ELSE lo

bisect_right(a, x) == BisectRightLoop(a, x, 0, Len(a))

\* Mutant of _empirical_percentile: only the values strictly below count.
PercentileStrictlyBelow(value, sorted_values) ==
    LET n == Len(sorted_values)
        below == bisect_left(sorted_values, value)
    IN IF n = 0 THEN 500
       ELSE Round(below * 1000, n)

\* Mutant of _empirical_percentile: the rank counts the equal values in full.
PercentileUpToValue(value, sorted_values) ==
    LET n == Len(sorted_values)
        above == bisect_right(sorted_values, value)
    IN IF n = 0 THEN 500
       ELSE Round(above * 1000, n)

\* Midrank percentile in tenths: round((below + 0.5 * equal) / n * 100, 1).
_empirical_percentile(value, sorted_values) ==
    LET n == Len(sorted_values)
        below == bisect_left(sorted_values, value)
        above == bisect_right(sorted_values, value)
        equal == above - below
    IN IF n = 0 THEN 500
       ELSE Round((2 * below + equal) * 500, n)

-----------------------------------------------------------------------------
(* league_distribution.py: derived metrics and role distributions *)

\* Mutant of DISTRIBUTABLE_METRICS: minutes is not distributed.
DistributableWithoutMinutes ==
    {"goals_per_90", "assists_per_90", "shots_on_per_90",
     "key_passes_per_90", "tackles_per_90", "interceptions_per_90",
     "blocks_per_90", "saves_per_90", "goals_conceded_per_90",
     "yellow_per_90", "red_per_90",
     "shot_accuracy_pct", "pass_accuracy", "duels_won_pct",
     "dribbles_success_pct",
     "appearances", "rating",
     "clean_sheet_rate", "penalty_saved_rate",
     "save_pct", "goals_conceded_adjusted"}

DISTRIBUTABLE_METRICS ==
    {"goals_per_90", "assists_per_90", "shots_on_per_90",
     "key_passes_per_90", "tackles_per_90", "interceptions_per_90",
     "blocks_per_90", "saves_per_90", "goals_conceded_per_90",
     "yellow_per_90", "red_per_90",
     "shot_accuracy_pct", "pass_accuracy", "duels_won_pct",
     "dribbles_success_pct",
     "minutes", "appearances", "rating",
     "clean_sheet_rate", "penalty_saved_rate",
     "save_pct", "goals_conceded_adjusted"}

\* round((value / minutes) * 90, 3), in thousandths
_per_90(value, minutes) ==
    IF value = None \/ minutes = None \/ Val(minutes) < MIN_MINUTES THEN None
    ELSE Some(Round(Val(value) * 90 * 1000, Val(minutes)))

\* round((num / denom) * 100, 1), in tenths
_pct(num, denom) ==
    IF num = None \/ denom = None \/ Val(denom) = 0 THEN None
    ELSE Some(Round(Val(num) * 1000, Val(denom)))

\* float(val) if it is > 0, else None
_nullable_float(val) ==
    IF val = None THEN None
    ELSE IF Val(val) > 0 THEN val ELSE None

\* sorted(values)
Sorted(values) == SortSeq(values, LAMBDA a, b : a < b)

\* Mutant of _winsorize: the clipped list is built from the sorted copy.
WinsorizeSortedCopy(values) ==
    LET n == Len(values)
        sorted_vals == Sorted(values)
        lo == sorted_vals[Max2(0, n \div 100) + 1]
        hi == sorted_vals[Min2(n - 1, (n * 99) \div 100) + 1]
    IN IF n < 10 THEN values
       ELSE [i \in 1..n |-> Max2(lo, Min2(hi, sorted_vals[i]))]

\* Values below the 1st and above the 99th percentile are clipped.
_winsorize(values) ==
    LET n == Len(values)
        sorted_vals == Sorted(values)
        lo == sorted_vals[Max2(0, n \div 100) + 1]
        hi == sorted_vals[Min2(n - 1, (n * 99) \div 100) + 1]
    IN IF n < 10 THEN values
       ELSE [i \in 1..n |-> Max2(lo, Min2(hi, values[i]))]

\* stats.get(key)
StatsGet(stats, key) == DictGet(stats, key, None)

\* compute_player_metrics(stats, clean_sheet_data)
compute_player_metrics(stats, clean_sheet_data) ==
    LET minutes == StatsGet(stats, "minutes")
        rating == StatsGet(stats, "rating")
        api_pid == StatsGet(stats, "api_player_id")
        cs_data == IF api_pid # None /\ Val(api_pid) \in DOMAIN clean_sheet_data
                   THEN clean_sheet_data[Val(api_pid)] ELSE <<None, None>>
        cs_count == cs_data[1]
        cs_matches == cs_data[2]
        clean_sheet_rate ==
            IF cs_count # None /\ cs_matches # None /\ Val(cs_matches) > 0
            THEN Some(Round(Val(cs_count) * 1000, Val(cs_matches))) ELSE None
        penalty_saved == StatsGet(stats, "penalty_saved")
        appearances == StatsGet(stats, "appearances")
        penalty_saved_rate ==
            IF penalty_saved # None /\ appearances # None /\ Val(appearances) > 0
            THEN Some(Round(Val(penalty_saved) * 1000, Val(appearances))) ELSE None
        saves == StatsGet(stats, "saves")
        goals_conceded == StatsGet(stats, "goals_conceded")
        saves0 == IF saves = None THEN 0 ELSE Val(saves)
        conceded0 == IF goals_conceded = None THEN 0 ELSE Val(goals_conceded)
        shots_faced == saves0 + conceded0
    IN [goals_per_90 |-> _per_90(StatsGet(stats, "goals"), minutes),
        assists_per_90 |-> _per_90(StatsGet(stats, "assists"), minutes),
        shots_per_90 |-> _per_90(StatsGet(stats, "shots_total"), minutes),
        shots_on_per_90 |-> _per_90(StatsGet(stats, "shots_on"), minutes),
        key_passes_per_90 |-> _per_90(StatsGet(stats, "key_passes"), minutes),
        tackles_per_90 |-> _per_90(StatsGet(stats, "tackles_total"), minutes),
        interceptions_per_90 |-> _per_90(StatsGet(stats, "interceptions"), minutes),
        blocks_per_90 |-> _per_90(StatsGet(stats, "blocks"), minutes),
        saves_per_90 |-> _per_90(saves, minutes),
        goals_conceded_per_90 |-> _per_90(goals_conceded, minutes),
        yellow_per_90 |-> _per_90(StatsGet(stats, "yellow_cards"), minutes),
        red_per_90 |-> _per_90(StatsGet(stats, "red_cards"), minutes),
        shot_accuracy_pct |-> _pct(StatsGet(stats, "shots_on"),
                                   StatsGet(stats, "shots_total")),
        pass_accuracy |-> StatsGet(stats, "pass_accuracy"),
        duels_won_pct |-> _pct(StatsGet(stats, "duels_won"),
                               StatsGet(stats, "duels_total")),
        dribbles_success_pct |-> _pct(StatsGet(stats, "dribbles_success"),
                                      StatsGet(stats, "dribbles_attempts")),
        minutes |-> IF minutes # None /\ Val(minutes) >= MIN_MINUTES
                    THEN minutes ELSE None,
        appearances |-> appearances,
        rating |-> _nullable_float(rating),
        save_pct |-> IF shots_faced > 0
                     THEN Some(Round(saves0 * 1000, shots_faced)) ELSE None,
        goals_conceded_adjusted |->
                     IF shots_faced > 0
                     THEN Some(Round(conceded0 * 1000, shots_faced)) ELSE None,
        clean_sheet_rate |-> clean_sheet_rate,
        penalty_saved_rate |-> penalty_saved_rate,
        match_winning_goals |-> None,
        points_contribution |-> None,
        match_decisive_saves |-> None,
        match_decisive_actions |-> None,
        match_impact_index |-> None,
        progressive_passes |-> None,
        progressive_actions |-> None,
        distribution_quality |-> None,
        ball_recoveries |-> None,
        xG_per_90 |-> None]

\* Mutant of SeasonStatsQuery: the WHERE clause does not look at minutes.
SeasonStatsUnfiltered(stats_table, min_minutes) == stats_table

\* SEASON_STATS_SQL: the rows with minutes IS NOT NULL AND minutes >= :min_minutes
SeasonStatsQuery(stats_table, min_minutes) ==
    SelectSeq(stats_table,
              LAMBDA row : row["minutes"] # None /\ Val(row["minutes"]) >= min_minutes)

\* Mutant of DerivedOfRow: the record keeps the label of the row as its
\* position.
DerivedOfRowRawLabel(row, cs_data, impact_data) ==
    LET r == ("pass_accuracy" :> _nullable_float(StatsGet(row, "passes_accuracy"))) @@ row
        api_pid == StatsGet(r, "api_player_id")
        derived == compute_player_metrics(r, cs_data)
        impact == IF api_pid # None /\ Val(api_pid) # 0 /\ Val(api_pid) \in DOMAIN impact_data
                  THEN impact_data[Val(api_pid)] ELSE EmptyDict
    IN ("position" :> StatsGet(r, "position")) @@ impact @@ derived

\* The body of the loop over the rows: the derived record of one row.
DerivedOfRow(row, cs_data, impact_data) ==
    LET r == ("pass_accuracy" :> _nullable_float(StatsGet(row, "passes_accuracy"))) @@ row
        role == normalize_position(StatsGet(r, "position"))
        api_pid == StatsGet(r, "api_player_id")
        derived == compute_player_metrics(r, cs_data)
        impact == IF api_pid # None /\ Val(api_pid) # 0 /\ Val(api_pid) \in DOMAIN impact_data
                  THEN impact_data[Val(api_pid)] ELSE EmptyDict
    IN ("position" :> Some(role)) @@ impact @@ derived

\* role_raw[role]: the derived records of the role, in row order
RoleRaw(derived_rows, role) ==
    SelectSeq(derived_rows, LAMBDA d : d["position"] = Some(role))

\* values = [p[metric] for p in players if p.get(metric) is not None]
MetricValuesOf(players, metric) ==
    LET present == SelectSeq(players, LAMBDA d : DictGet(d, metric, None) # None)
    IN [i \in 1..Len(present) |-> Val(present[i][metric])]

\* Mutant of MetricsDist: two values are enough for a list.
MetricsDistOfTwo(players) ==
    LET kept == {metric \in DISTRIBUTABLE_METRICS :
                    Len(MetricValuesOf(players, metric)) >= 2}
    IN [metric \in kept |-> Sorted(_winsorize(MetricValuesOf(players, metric)))]

\* Mutant of MetricsDist: the winsorized values are stored as they come.
MetricsDistUnsorted(players) ==
    LET kept == {metric \in DISTRIBUTABLE_METRICS :
                    Len(MetricValuesOf(players, metric)) >= 3}
    IN [metric \in kept |-> _winsorize(MetricValuesOf(players, metric))]

\* metrics_dist of one role
MetricsDist(players) ==
    LET kept == {metric \in DISTRIBUTABLE_METRICS :
                    Len(MetricValuesOf(players, metric)) >= 3}
    IN [metric \in kept |-> Sorted(_winsorize(MetricValuesOf(players, metric)))]

\* player_cache: the derived record of the last row of every api_player_id
PlayerCache(stats_rows, derived_rows) ==
    LET ids == {Val(stats_rows[i]["api_player_id"]) :
                  i \in {j \in 1..Len(stats_rows) :
                           /\ stats_rows[j]["api_player_id"] # None
                           /\ Val(stats_rows[j]["api_player_id"]) # 0}}
        last(id) == CHOOSE i \in 1..Len(stats_rows) :
                      /\ stats_rows[i]["api_player_id"] = Some(id)
                      /\ \A j \in 1..Len(stats_rows) :
                           stats_rows[j]["api_player_id"] = Some(id) => j <= i
    IN [id \in ids |-> derived_rows[last(id)]]

\* Mutant of build_role_distributions: a season without rows is treated like
\* a failed query.
BuildNothingFromNothing(database) ==
    IF ~database.up \/ SeasonStatsQuery(database.stats, MIN_MINUTES) = << >>
    THEN <<EmptyDict, EmptyDict>>
    ELSE LET stats_rows == SeasonStatsQuery(database.stats, MIN_MINUTES)
             derived_rows == [i \in 1..Len(stats_rows) |->
                                DerivedOfRow(stats_rows[i], database.clean_sheets,
                                             database.impact)]
         IN <<[role \in {"Goalkeeper", "Defender", "Midfielder", "Attacker"} |->
                  MetricsDist(RoleRaw(derived_rows, role))],
              PlayerCache(stats_rows, derived_rows)>>

\* build_role_distributions(season, db): <<role_distributions, player_metrics_cache>>
build_role_distributions(database) ==
    IF ~database.up THEN <<EmptyDict, EmptyDict>>
    ELSE LET stats_rows == SeasonStatsQuery(database.stats, MIN_MINUTES)
             derived_rows == [i \in 1..Len(stats_rows) |->
                                DerivedOfRow(stats_rows[i], database.clean_sheets,
                                             database.impact)]
         IN <<[role \in {"Goalkeeper", "Defender", "Midfielder", "Attacker"} |->
                  MetricsDist(RoleRaw(derived_rows, role))],
              PlayerCache(stats_rows, derived_rows)>>

-----------------------------------------------------------------------------
(* attribution_engine.py: helpers *)

\* Mutant of Reliability: the ratio is not capped at 1.
ReliabilityUncapped(minutes) == minutes

\* reliability = min(1.0, minutes / RELIABILITY_MINUTES), as a numerator over
\* RELIABILITY_MINUTES.
Reliability(minutes) == Min2(RELIABILITY_MINUTES, minutes)

\* Mutant of _shrink: the distance from 50 grows as the minutes shrink.
ShrinkAwayFromFifty(percentile, minutes) ==
    Round(500 * RELIABILITY_MINUTES
            + (2 * RELIABILITY_MINUTES - Reliability(minutes)) * (percentile - 500),
          RELIABILITY_MINUTES)

\* round(50.0 + reliability * (percentile - 50.0), 1), in tenths.
_shrink(percentile, minutes) ==
    Round(500 * RELIABILITY_MINUTES + Reliability(minutes) * (percentile - 500),
          RELIABILITY_MINUTES)

\* Mutant of _compute_tier_score: the weights of the missing metrics stay in
\* the denominator, i.e. a missing metric counts as a score of zero.
TierScoreZeroImputed(tier_metrics, metric_scores) ==
    LET components == (DOMAIN tier_metrics) \cap (DOMAIN metric_scores)
        weighted == [m \in components |-> metric_scores[m] * tier_metrics[m]]
    IN IF components = {} THEN None
       ELSE Some([n |-> SumOver(weighted, components),
                  d |-> SumOver(tier_metrics, DOMAIN tier_metrics)])

\* Weighted mean of the available metric scores of one tier: None, or the
\* exact fraction [n, d] of tenths.
_compute_tier_score(tier_metrics, metric_scores) ==
    LET components == (DOMAIN tier_metrics) \cap (DOMAIN metric_scores)
        total_w == SumOver(tier_metrics, components)
        weighted == [m \in components |-> metric_scores[m] * tier_metrics[m]]
    IN IF components = {} THEN None
       ELSE Some([n |-> SumOver(weighted, components), d |-> total_w])

-----------------------------------------------------------------------------
(* attribution_engine.py: calculate_player_score *)

\* Truth value of an optional string: None and "" are falsy.
Truthy(o) == o # None /\ Val(o) # ""

\* player_metrics.get(key)
PlayerGet(pm, key) == DictGet(pm, key, None)

null_result ==
    [overall_score |-> None, attack_score |-> None, creation_score |-> None,
     defense_score |-> None, impact_score |-> None, discipline_malus |-> None,
     reliability_index |-> None, breakdown |-> None]

\* pos = position or player_metrics.get("position") or "Midfielder"
FirstPos(pm, pos_arg) ==
    IF Truthy(pos_arg) THEN Val(pos_arg)
    ELSE IF Truthy(PlayerGet(pm, "position")) THEN Val(PlayerGet(pm, "position"))
    ELSE "Midfielder"

\* Mutant of InsufficientMinutes: only a missing value is rejected.
InsufficientMinutesNullOnly(minutes) == minutes = None

\* if minutes is None or minutes < MIN_MINUTES
InsufficientMinutes(minutes) == minutes = None \/ Val(minutes) < MIN_MINUTES

\* Mutant of RoleDist: a role without an entry borrows the Midfielder entry.
RoleDistBorrowed(dists, pos) ==
    DictGet(dists, pos, DictGet(dists, "Midfielder", EmptyDict))

\* dist = role_dists.get(pos, {})
RoleDist(dists, pos) == DictGet(dists, pos, EmptyDict)

\* Mutant of ConfiguredPos: the fallback role is Defender.
ConfiguredPosDefender(pos) == IF pos \notin DOMAIN ROLE_CONFIGS THEN "Defender" ELSE pos

\* if pos not in ROLE_CONFIGS: pos = "Midfielder"
ConfiguredPos(pos) == IF pos \notin DOMAIN ROLE_CONFIGS THEN "Midfielder" ELSE pos

\* all_tier_metrics: the union of the metric names of the tiers of the config
AllTierMetrics(config) ==
    UNION {DOMAIN config[TierNames[i]].metrics :
             i \in {j \in 1..Len(TierNames) : TierNames[j] \in DOMAIN config}}

\* Mutant of ScoredMetrics: a metric with a value is scored even when the
\* distribution holds no list for it (against the neutral percentile of the
\* empty list).
ScoredMetricsWithoutList(pm, dist, config) ==
    {m \in AllTierMetrics(config) : PlayerGet(pm, m) # None}

\* The metrics the per-metric loop does not skip.
ScoredMetrics(pm, dist, config) ==
    {m \in AllTierMetrics(config) :
        /\ PlayerGet(pm, m) # None
        /\ \/ m \in DIRECT_SCORE_METRICS
           \/ DictGet(dist, m, << >>) # << >>}

\* Mutant of MetricPct: a direct-score metric is ranked against the list of
\* its name like every other metric.
MetricPctAllRanked(pm, dist, m) ==
    LET value == Val(PlayerGet(pm, m))
        pct == _empirical_percentile(value, DictGet(dist, m, << >>))
    IN IF m \in INVERSE_METRICS THEN 1000 - pct ELSE pct

\* Mutant of MetricPct: the percentile of an inverse metric is used as is.
MetricPctNotInverted(pm, dist, m) ==
    LET value == Val(PlayerGet(pm, m))
    IN IF m \in DIRECT_SCORE_METRICS THEN value
       ELSE _empirical_percentile(value, DictGet(dist, m, << >>))

\* pct of one scored metric (tenths)
MetricPct(pm, dist, m) ==
    LET value == Val(PlayerGet(pm, m))
    IN IF m \in DIRECT_SCORE_METRICS THEN value
       ELSE LET pct == _empirical_percentile(value, DictGet(dist, m, << >>))
            IN IF m \in INVERSE_METRICS THEN 1000 - pct ELSE pct

\* metric_scores after the per-metric loop
MetricScores(pm, dist, config, minutes) ==
    [m \in ScoredMetrics(pm, dist, config) |->
        _shrink(MetricPct(pm, dist, m), minutes)]

\* tier_for_metric / weight_for_metric: the first tier that names the metric
TierForMetric(config, m) ==
    LET hits == {j \in 1..Len(TierNames) :
                    /\ TierNames[j] \in DOMAIN config
                    /\ m \in DOMAIN config[TierNames[j]].metrics}
    IN IF hits = {} THEN [tier |-> "", weight |-> 0]
       ELSE LET j == CHOOSE k \in hits : \A l \in hits : k <= l
            IN [tier |-> TierNames[j], weight |-> config[TierNames[j]].metrics[m]]

\* tier_scores: the tiers that produced a score, each an exact fraction
TierScores(config, metric_scores) ==
    LET present == {TierNames[j] : j \in {k \in 1..Len(TierNames) :
                        /\ TierNames[k] \in DOMAIN config
                        /\ _compute_tier_score(config[TierNames[k]].metrics,
                                               metric_scores) # None}}
    IN [t \in present |->
           Val(_compute_tier_score(config[t].metrics, metric_scores))]

\* Mutant of BaseScore: the weights of all three tiers stay in the
\* denominator, i.e. a tier without a score counts as zero.
BaseScoreOverAllTiers(config, tier_scores) ==
    LET N(t) == IF t \in DOMAIN tier_scores THEN tier_scores[t].n ELSE 0
        D(t) == IF t \in DOMAIN tier_scores THEN tier_scores[t].d ELSE 1
        W(t) == IF t \in DOMAIN tier_scores THEN config[t].weight ELSE 0
        total_tier_weight ==
            config.tier_a.weight + config.tier_b.weight + config.tier_c.weight
    IN [n |-> N("tier_a") * W("tier_a") * D("tier_b") * D("tier_c")
            + N("tier_b") * W("tier_b") * D("tier_a") * D("tier_c")
            + N("tier_c") * W("tier_c") * D("tier_a") * D("tier_b"),
        d |-> total_tier_weight * D("tier_a") * D("tier_b") * D("tier_c")]

\* base_score = sum(tier_scores[t] * weight[t]) / total_tier_weight, exact.
\* A tier without a score enters as 0/1 with weight 0.
BaseScore(config, tier_scores) ==
    LET N(t) == IF t \in DOMAIN tier_scores THEN tier_scores[t].n ELSE 0
        D(t) == IF t \in DOMAIN tier_scores THEN tier_scores[t].d ELSE 1
        W(t) == IF t \in DOMAIN tier_scores THEN config[t].weight ELSE 0
        total_tier_weight == W("tier_a") + W("tier_b") + W("tier_c")
    IN [n |-> N("tier_a") * W("tier_a") * D("tier_b") * D("tier_c")
            + N("tier_b") * W("tier_b") * D("tier_a") * D("tier_c")
            + N("tier_c") * W("tier_c") * D("tier_a") * D("tier_b"),
        d |-> total_tier_weight * D("tier_a") * D("tier_b") * D("tier_c")]

\* The malus metrics the malus loop does not skip.
MalusMetrics(pm, dist, config) ==
    {m \in DOMAIN DictGet(config, "malus", EmptyDict) :
        /\ PlayerGet(pm, m) # None
        /\ DictGet(dist, m, << >>) # << >>}

\* Mutant of MalusContribution: the penalty enters with its magnitude.
MalusContributionMagnitude(pm, dist, config, minutes, m) ==
    (0 - config.malus[m])
      * _empirical_percentile(Val(PlayerGet(pm, m)), DictGet(dist, m, << >>))
      * (IF minutes >= RELIABILITY_MINUTES THEN RELIABILITY_MINUTES ELSE minutes)

\* Mutant of MalusContribution: the penalty is scaled by the shrunk
\* percentile, as the tier metrics are.
MalusContributionShrunk(pm, dist, config, minutes, m) ==
    config.malus[m]
      * _shrink(_empirical_percentile(Val(PlayerGet(pm, m)),
                                      DictGet(dist, m, << >>)), minutes)
      * Reliability(minutes)

\* Mutant of MalusContribution: the penalty is not scaled by the reliability.
MalusContributionUnscaled(pm, dist, config, minutes, m) ==
    config.malus[m]
      * _empirical_percentile(Val(PlayerGet(pm, m)), DictGet(dist, m, << >>))
      * RELIABILITY_MINUTES

\* contribution = max_penalty * (pct / 100) * reliability, as a numerator over
\* 100 * RELIABILITY_MINUTES tenths of a point.
MalusContribution(pm, dist, config, minutes, m) ==
    config.malus[m]
      * _empirical_percentile(Val(PlayerGet(pm, m)), DictGet(dist, m, << >>))
      * Reliability(minutes)

MalusDen == 100 * RELIABILITY_MINUTES

\* malus after the loop, numerator over MalusDen
Malus(pm, dist, config, minutes) ==
    LET ms == MalusMetrics(pm, dist, config)
    IN SumOver([m \in ms |-> MalusContribution(pm, dist, config, minutes, m)], ms)

\* discipline_malus = round(max(-10.0, malus), 1)
DisciplineMalus(malus) == Round(Max2(-100 * MalusDen, malus), MalusDen)

\* Mutant of OverallScore: the sum is rounded without clipping.
OverallScoreUnclipped(base_score, discipline_malus) ==
    Round(base_score.n + discipline_malus * base_score.d, base_score.d)

\* Mutant of OverallScore: the malus is left out of the sum.
OverallScoreNoMalus(base_score, discipline_malus) ==
    Round(Max2(0, Min2(1000 * base_score.d, base_score.n)), base_score.d)

\* overall_score = round(max(0.0, min(100.0, base_score + discipline_malus)), 1)
OverallScore(base_score, discipline_malus) ==
    Round(Max2(0, Min2(1000 * base_score.d,
                       base_score.n + discipline_malus * base_score.d)),
          base_score.d)

\* Mutant of CategoryScore: the sum is divided by the size of the category,
\* i.e. a metric of the category without a score counts as zero.
CategoryScoreOverCategory(cat_metrics, metric_scores) ==
    LET scores_in_cat == cat_metrics \cap DOMAIN metric_scores
    IN IF scores_in_cat # {}
       THEN Some(Round(SumOver(metric_scores, scores_in_cat),
                       Cardinality(cat_metrics)))
       ELSE None

\* One category score: the rounded unweighted mean of the scores in the category.
CategoryScore(cat_metrics, metric_scores) ==
    LET scores_in_cat == cat_metrics \cap DOMAIN metric_scores
    IN IF scores_in_cat # {}
       THEN Some(Round(SumOver(metric_scores, scores_in_cat),
                       Cardinality(scores_in_cat)))
       ELSE None

\* breakdown: one entry per scored tier metric, one per applied malus metric
\* (a malus entry replaces a tier entry of the same name).
Breakdown(pm, dist, config, minutes, metric_scores) ==
    LET tier_ms == DOMAIN metric_scores
        malus_ms == MalusMetrics(pm, dist, config)
    IN [m \in tier_ms \cup malus_ms |->
          IF m \in malus_ms
          THEN [value |-> Val(PlayerGet(pm, m)),
                percentile |-> _empirical_percentile(Val(PlayerGet(pm, m)),
                                                     DictGet(dist, m, << >>)),
                malus_contribution |->
                    Round(MalusContribution(pm, dist, config, minutes, m),
                          MalusDen \div 10),
                max_penalty |-> config.malus[m],
                tier |-> "malus"]
          ELSE [value |-> Val(PlayerGet(pm, m)),
                percentile |-> MetricPct(pm, dist, m),
                score |-> metric_scores[m],
                weight |-> TierForMetric(config, m).weight,
                tier |-> TierForMetric(config, m).tier]]

\* Locals of a call that returned before the per-metric loop.
EarlyFrame(pos) ==
    [pos |-> pos, reached |-> "guard", metric_scores |-> None,
     tier_scores |-> None, base_score |-> None, malus |-> None]

\* Mutant of ScoreFrom: malus and reliability are filled in before the
\* check for an empty tier_scores, so they survive in the null result.
ScoreFromMalusFirst(pm, dist, config, mins, pos, metric_scores) ==
    LET tier_scores == TierScores(config, metric_scores)
        base_score == BaseScore(config, tier_scores)
        malus == Malus(pm, dist, config, mins)
        discipline_malus == DisciplineMalus(malus)
    IN IF tier_scores = EmptyDict
       THEN [ret |-> [null_result EXCEPT
                        !.discipline_malus = Some(discipline_malus),
                        !.reliability_index =
                            Some(Round(Reliability(mins) * 1000, RELIABILITY_MINUTES))],
             frame |-> [pos |-> pos, reached |-> "tiers",
                        metric_scores |-> Some(metric_scores),
                        tier_scores |-> Some(tier_scores),
                        base_score |-> None, malus |-> None]]
       ELSE [ret |->
               [overall_score |-> Some(OverallScore(base_score, discipline_malus)),
                attack_score |-> CategoryScore(CATEGORY_METRICS.attack, metric_scores),
                creation_score |-> CategoryScore(CATEGORY_METRICS.creation, metric_scores),
                defense_score |-> CategoryScore(CATEGORY_METRICS.defense, metric_scores),
                impact_score |-> CategoryScore(CATEGORY_METRICS.impact, metric_scores),
                discipline_malus |-> Some(discipline_malus),
                reliability_index |->
                    Some(Round(Reliability(mins) * 1000, RELIABILITY_MINUTES)),
                breakdown |-> Some(Breakdown(pm, dist, config, mins, metric_scores))],
             frame |-> [pos |-> pos, reached |-> "return",
                        metric_scores |-> Some(metric_scores),
                        tier_scores |-> Some(tier_scores),
                        base_score |-> Some(base_score),
                        malus |-> Some(malus)]]

\* Steps 2 to 4 and the return, from the metric_scores of step 1:
\* [ret |-> returned mapping, frame |-> locals at the return].
ScoreFrom(pm, dist, config, mins, pos, metric_scores) ==
    LET tier_scores == TierScores(config, metric_scores)
        base_score == BaseScore(config, tier_scores)
        malus == Malus(pm, dist, config, mins)
        discipline_malus == DisciplineMalus(malus)
    IN IF tier_scores = EmptyDict
       THEN [ret |-> null_result,
             frame |-> [pos |-> pos, reached |-> "tiers",
                        metric_scores |-> Some(metric_scores),
                        tier_scores |-> Some(tier_scores),
                        base_score |-> None, malus |-> None]]
       ELSE [ret |->
               [overall_score |-> Some(OverallScore(base_score, discipline_malus)),
                attack_score |-> CategoryScore(CATEGORY_METRICS.attack, metric_scores),
                creation_score |-> CategoryScore(CATEGORY_METRICS.creation, metric_scores),
                defense_score |-> CategoryScore(CATEGORY_METRICS.defense, metric_scores),
                impact_score |-> CategoryScore(CATEGORY_METRICS.impact, metric_scores),
                discipline_malus |-> Some(discipline_malus),
                reliability_index |->
                    Some(Round(Reliability(mins) * 1000, RELIABILITY_MINUTES)),
                breakdown |-> Some(Breakdown(pm, dist, config, mins, metric_scores))],
             frame |-> [pos |-> pos, reached |-> "return",
                        metric_scores |-> Some(metric_scores),
                        tier_scores |-> Some(tier_scores),
                        base_score |-> Some(base_score),
                        malus |-> Some(malus)]]

\* The call: [ret |-> returned mapping, frame |-> locals at the return].
calculate_player_score(pm, dists, pos_arg) ==
    LET pos0 == FirstPos(pm, pos_arg)
        minutes == PlayerGet(pm, "minutes")
        pos == ConfiguredPos(pos0)
        config == ROLE_CONFIGS[pos]
        dist == RoleDist(dists, pos)
    IN IF InsufficientMinutes(minutes)
       THEN [ret |-> null_result, frame |-> EarlyFrame(pos0)]
       ELSE IF dist = EmptyDict
       THEN [ret |-> null_result, frame |-> EarlyFrame(pos)]
       ELSE ScoreFrom(pm, dist, config, Val(minutes), pos,
                      MetricScores(pm, dist, config, Val(minutes)))

-----------------------------------------------------------------------------
(* Inputs of the scorer *)

MaxPresent == 2     \* metrics, besides minutes, that an input record carries
MaxLen == 2         \* length of a distribution list

Roles == {"Goalkeeper", "Defender", "Midfielder", "Attacker"}

\* Values of a metric (any unit) in a record and in a distribution list.
RecordValues == {0, 300, 1200}
ListValues == {300, 1200}

\* Metric names the input records and distributions draw from.
InputMetrics ==
    {"saves_per_90", "goals_conceded_per_90", "goals_per_90", "pass_accuracy",
     "yellow_per_90", "red_per_90"}

\* The input metrics the configuration of a role reads.
RoleInputs(role) ==
    InputMetrics \cap (AllTierMetrics(ROLE_CONFIGS[role])
                        \cup DOMAIN ROLE_CONFIGS[role].malus)

Lists == UNION {[1..n -> ListValues] : n \in 1..MaxLen}

\* Records: position, minutes and at most MaxPresent metrics out of ms.
Records(pos, minutes, ms) ==
    {("position" :> pos) @@ ("minutes" :> minutes) @@ [m \in S |-> Some(f[m])] :
        S \in {T \in SUBSET ms : Cardinality(T) <= MaxPresent},
        f \in [ms -> RecordValues]}

\* Distributions of one role: every metric of ms but at most one, all with
\* the list l.
Dists(ms, l) ==
    {[m \in ms \ missing |-> l] :
        missing \in {T \in SUBSET ms : Cardinality(T) <= 1}}

\* Inputs that exercise the scoring proper: the record names its role, has
\* enough minutes, and every role has the same distribution.
InitScoring ==
    \E role \in Roles, minutes \in {300, 307, 600, 1200}, l \in Lists :
      \E pm \in Records(Some(role), Some(minutes), RoleInputs(role)),
         d \in Dists(RoleInputs(role) \cup {"minutes"}, l) :
        /\ player_metrics = pm
        /\ role_dists = [r \in Roles |-> d]
        /\ position = None

\* Inputs that exercise the guards: every way of naming (or not naming) a
\* role, minutes around the threshold, roles with no or an empty distribution.
\* Only the Midfielder list is <<300, 1200>>.
ProbeDist(role) ==
    [m \in InputMetrics \cup {"minutes"} |->
        IF role = "Midfielder" THEN <<300, 1200>> ELSE <<1200, 1200>>]

InitGuards ==
    \E pos \in {None, Some(""), Some("Coach")} \cup {Some(r) : r \in Roles},
       pos_arg \in {None, Some(""), Some("Defender"), Some("Coach")},
       minutes \in {None, Some(0), Some(299), Some(300), Some(1200)},
       present \in {{}, {"goals_per_90", "pass_accuracy", "yellow_per_90", "captain"}},
       with \in {{}, {"Midfielder"}, {"Goalkeeper", "Defender"}, Roles},
       empty \in BOOLEAN :
        /\ player_metrics = ("position" :> pos) @@ ("minutes" :> minutes)
                            @@ [m \in present |-> Some(1200)]
                            @@ [m \in InputMetrics |-> None]
        /\ role_dists = [r \in (IF empty THEN Roles ELSE with) |->
                            IF r \in with THEN ProbeDist(r) ELSE EmptyDict]
        /\ position = pos_arg

NoBuild == db = None /\ player_cache = None
NoNormalize == raw = None /\ normalized = None
NoCalls == calls = None
NoEngine == engine = None
NoProbe == probe = None
NoService == service = None

Init ==
    /\ InitScoring \/ InitGuards
    /\ result = None
    /\ frame = None
    /\ first_call = None
    /\ NoBuild
    /\ NoNormalize
    /\ NoCalls
    /\ NoEngine
    /\ NoProbe
    /\ NoService

\* Mutant of Score: metric_scores is a dictionary shared by all calls and
\* never cleared, so the scores of the previous call enter the tiers.
ScoreLeaky ==
    /\ result = None
    /\ LET fresh == calculate_player_score(player_metrics, role_dists, position)
           stale == IF frame # None /\ Val(frame).metric_scores # None
                    THEN Val(Val(frame).metric_scores) ELSE EmptyDict
           merged == Val(fresh.frame.metric_scores) @@ stale
           config == ROLE_CONFIGS[fresh.frame.pos]
           leaked == OverallScore(BaseScore(config, TierScores(config, merged)),
                                  Val(fresh.ret.discipline_malus))
       IN IF fresh.frame.reached # "return"
          THEN /\ result' = Some(fresh.ret)
               /\ frame' = Some(fresh.frame)
          ELSE /\ result' = Some([fresh.ret EXCEPT
                                    !.overall_score = Some(leaked)])
               /\ frame' = Some([fresh.frame EXCEPT
                                    !.metric_scores = Some(merged)])
    /\ UNCHANGED <<service, probe, engine, calls, player_metrics, role_dists, position, first_call,
                   raw, normalized, db, player_cache>>

\* One call of calculate_player_score on the current arguments.
Score ==
    /\ result = None
    /\ LET call == calculate_player_score(player_metrics, role_dists, position)
       IN /\ result' = Some(call.ret)
          /\ frame' = Some(call.frame)
    /\ UNCHANGED <<service, probe, engine, calls, player_metrics, role_dists, position, first_call,
                   raw, normalized, db, player_cache>>

Next == Score

Spec == Init /\ [][Next]_vars

-----------------------------------------------------------------------------
(* Building the distributions of a season and scoring against them *)

MaxPop == 4         \* rows of player_season_stats in the season

\* The columns SEASON_STATS_SQL selects.
StatsColumns ==
    {"position", "appearances", "minutes", "goals", "assists", "shots_total",
     "shots_on", "passes_accuracy", "rating", "yellow_cards", "red_cards",
     "tackles_total", "interceptions", "duels_total", "duels_won",
     "dribbles_attempts", "dribbles_success", "key_passes", "fouls_committed",
     "captain", "blocks", "saves", "goals_conceded", "penalty_saved",
     "api_player_id"}

\* A row of the join: the named columns, the card and pass columns at fixed
\* values, every other column NULL.
StatsRow(pos, minutes, goals, saves, goals_conceded) ==
    ("position" :> Some(pos)) @@ ("minutes" :> minutes) @@ ("goals" :> goals)
    @@ ("saves" :> saves) @@ ("goals_conceded" :> goals_conceded)
    @@ ("appearances" :> Some(10)) @@ ("passes_accuracy" :> Some(80))
    @@ ("yellow_cards" :> Some(2)) @@ ("red_cards" :> Some(0))
    @@ ("shots_total" :> Some(0)) @@ ("shots_on" :> Some(0))
    @@ [c \in StatsColumns |-> None]

\* The rows a season is made of; the labels are the ones API-Football uses.
RowPool ==
    {StatsRow("Attacker", Some(299), Some(1), None, None),
     StatsRow("Attacker", None, None, None, None),
     StatsRow("Attacker", Some(300), None, None, None),
     StatsRow("Attacker", Some(300), Some(2), None, None),
     StatsRow(" striker", Some(1200), Some(2), None, None),
     StatsRow("", Some(900), Some(0), Some(10), Some(5))}

\* api_player_id of the i-th row: 1, 2, ... or, in an "anonymous" season,
\* NULL for the first row and 2 for all the others.
ApiPlayerId(flavour, i) ==
    IF flavour # "anonymous" THEN Some(i)
    ELSE IF i = 1 THEN None ELSE Some(2)

\* What load_clean_sheet_data and load_match_impact_data return.
CleanSheetData(flavour) ==
    IF flavour = "extras" THEN (1 :> <<Some(1), Some(2)>>) ELSE EmptyDict
ImpactData(flavour) ==
    IF flavour = "extras" THEN (1 :> ("match_winning_goals" :> Some(2)))
    ELSE EmptyDict

Seasons ==
    {[up |-> TRUE,
      stats |-> [i \in 1..Len(f) |->
                    ("api_player_id" :> ApiPlayerId(flavour, i)) @@ f[i]],
      clean_sheets |-> CleanSheetData(flavour),
      impact |-> ImpactData(flavour)] :
        flavour \in {"plain", "extras", "anonymous"},
        f \in UNION {[1..k -> RowPool] : k \in 0..MaxPop}}

\* Seasons long enough for _winsorize to act (10 rows or more) and to clip
\* (100 or more): Attackers with 900 minutes, goals in no particular order,
\* one row far above and one far below the rest.
LargeSeasonSizes == {12, 101}
LargeSeasonGoals(i) ==
    IF i = 5 THEN 60 ELSE IF i = 7 THEN 0 ELSE 1 + ((i * 7) % 11)
LargeSeasons ==
    {[up |-> TRUE,
      stats |-> [i \in 1..n |->
                    ("api_player_id" :> Some(i))
                    @@ StatsRow("Attacker", Some(900), Some(LargeSeasonGoals(i)),
                                None, None)],
      clean_sheets |-> EmptyDict,
      impact |-> EmptyDict] : n \in LargeSeasonSizes}

\* A season of three goalkeepers; the first has clean-sheet and match-impact
\* data.
KeeperSeasons ==
    {[up |-> TRUE,
      stats |-> [i \in 1..3 |->
                    ("api_player_id" :> Some(i))
                    @@ StatsRow("Goalkeeper", Some(300 * i), None,
                                Some(10 * i), Some(15 - 5 * i))],
      clean_sheets |-> CleanSheetData("extras"),
      impact |-> ImpactData("extras")]}

\* A season in a database that answers, or a database whose query fails.
InitBuild ==
    /\ \E season \in Seasons \cup LargeSeasons \cup KeeperSeasons, up \in BOOLEAN :
         /\ up \/ Len(season.stats) <= 1
         /\ db = Some([season EXCEPT !.up = up])
    /\ player_metrics = None
    /\ role_dists = None
    /\ position = None
    /\ result = None
    /\ frame = None
    /\ first_call = None
    /\ player_cache = None
    /\ NoNormalize
    /\ NoCalls
    /\ NoEngine
    /\ NoProbe
    /\ NoService

\* distributions, player_cache = build_role_distributions(season, db)
Build ==
    /\ db # None
    /\ player_cache = None
    /\ LET built == build_role_distributions(Val(db))
       IN /\ role_dists' = built[1]
          /\ player_cache' = Some(built[2])
    /\ UNCHANGED <<service, probe, engine, calls, player_metrics, position, result, frame, first_call,
                   raw, normalized, db>>

\* Records that are not rows of the season: a role, minutes and nothing else.
Newcomers ==
    {("position" :> Some(role)) @@ ("minutes" :> minutes) :
        role \in {"Attacker", "Goalkeeper"},
        minutes \in {Some(299), Some(300)}}

\* Records that carry values for the match-impact metrics of tier C.
ImpactNewcomers ==
    {("position" :> Some("Goalkeeper")) @@ ("minutes" :> Some(1200))
       @@ ("saves_per_90" :> Some(3000)) @@ ("match_decisive_saves" :> Some(3)),
     ("position" :> Some("Attacker")) @@ ("minutes" :> Some(1200))
       @@ ("goals_per_90" :> Some(500)) @@ ("match_winning_goals" :> Some(2))
       @@ ("points_contribution" :> Some(6))}

\* One call of calculate_player_score against the distributions just built,
\* for a record of the cache or a newcomer, with or without a role override.
ScoreBuilt ==
    /\ player_cache # None
    /\ result = None
    /\ \E athlete \in {Val(player_cache)[id] : id \in DOMAIN Val(player_cache)}
                      \cup Newcomers \cup ImpactNewcomers,
          pos_arg \in {None, Some("Midfielder")} :
         LET call == calculate_player_score(athlete, role_dists, pos_arg)
         IN /\ player_metrics' = athlete
            /\ position' = pos_arg
            /\ result' = Some(call.ret)
            /\ frame' = Some(call.frame)
    /\ UNCHANGED <<service, probe, engine, calls, role_dists, first_call, raw, normalized, db, player_cache>>

NextBuild == Build \/ ScoreBuilt

SpecBuild == InitBuild /\ [][NextBuild]_vars

-----------------------------------------------------------------------------
(* Concurrent invocations of calculate_player_score on one published       *)
(* distribution mapping.  An invocation shares nothing but its arguments;  *)
(* its steps are the entry with the two guards, one iteration of the       *)
(* per-metric loop (the loop runs over a set, in any order) and the        *)
(* combination of tiers and malus.                                         *)

MaxCalls == 2       \* invocations in flight

CallIds == 1..MaxCalls

ConcurrentRecords ==
    {("position" :> Some("Attacker")) @@ ("minutes" :> Some(299))
        @@ ("goals_per_90" :> Some(300)),
     ("position" :> Some("Attacker")) @@ ("minutes" :> Some(600))
        @@ ("goals_per_90" :> Some(300)) @@ ("yellow_per_90" :> Some(1200)),
     ("position" :> Some("Attacker")) @@ ("minutes" :> Some(1200))
        @@ ("goals_per_90" :> Some(1200)),
     ("position" :> Some("Goalkeeper")) @@ ("minutes" :> Some(600))
        @@ ("saves_per_90" :> Some(300))}

InitConcurrent ==
    /\ \E published \in {Roles, {"Attacker"}} :
         role_dists = [r \in Roles |->
                          IF r \in published THEN ProbeDist("Midfielder")
                          ELSE EmptyDict]
    /\ \E records \in [CallIds -> ConcurrentRecords] :
         calls = [t \in CallIds |->
                    [player_metrics |-> records[t], position |-> None,
                     at |-> "entry", metric_scores |-> EmptyDict,
                     ret |-> None]]
    /\ player_metrics = None
    /\ position = None
    /\ result = None
    /\ frame = None
    /\ first_call = None
    /\ NoBuild
    /\ NoNormalize
    /\ NoEngine
    /\ NoProbe
    /\ NoService

\* Locals of invocation t that are functions of its arguments.
CallPos(t) == ConfiguredPos(FirstPos(calls[t].player_metrics, calls[t].position))
CallMinutes(t) == PlayerGet(calls[t].player_metrics, "minutes")

\* Lines 245-268: pos, minutes, the two guards, dist.
Enter(t) ==
    /\ calls[t].at = "entry"
    /\ calls' = [calls EXCEPT ![t] =
         IF \/ InsufficientMinutes(CallMinutes(t))
            \/ RoleDist(role_dists, CallPos(t)) = EmptyDict
         THEN [@ EXCEPT !.at = "returned", !.ret = Some(null_result)]
         ELSE [@ EXCEPT !.at = "loop"]]
    /\ UNCHANGED <<service, probe, engine, player_metrics, role_dists, position, result, frame,
                   first_call, raw, normalized, db, player_cache>>

\* bisect.insort(list, value)
InsertSorted(list, value) ==
    LET k == bisect_right(list, value)
    IN SubSeq(list, 1, k) \o <<value>> \o SubSeq(list, k + 1, Len(list))

\* Mutant of ScoreMetric: the iteration also inserts the athlete's value into
\* the list of the published distribution.
ScoreMetricInserting(t) ==
    /\ calls[t].at = "loop"
    /\ LET pm == calls[t].player_metrics
           pos == CallPos(t)
           dist == RoleDist(role_dists, pos)
       IN \E metric \in ScoredMetrics(pm, dist, ROLE_CONFIGS[pos])
                          \ DOMAIN calls[t].metric_scores :
            /\ calls' = [calls EXCEPT ![t].metric_scores =
                  (metric :> _shrink(MetricPct(pm, dist, metric),
                                     Val(CallMinutes(t)))) @@ @]
            /\ role_dists' = [role_dists EXCEPT ![pos][metric] =
                  InsertSorted(@, Val(PlayerGet(pm, metric)))]
    /\ UNCHANGED <<service, probe, engine, player_metrics, position, result, frame,
                   first_call, raw, normalized, db, player_cache>>

\* Lines 281-314: one iteration of the per-metric loop that stores a score.
ScoreMetric(t) ==
    /\ calls[t].at = "loop"
    /\ LET pm == calls[t].player_metrics
           pos == CallPos(t)
           dist == RoleDist(role_dists, pos)
       IN \E metric \in ScoredMetrics(pm, dist, ROLE_CONFIGS[pos])
                          \ DOMAIN calls[t].metric_scores :
            calls' = [calls EXCEPT ![t].metric_scores =
                  (metric :> _shrink(MetricPct(pm, dist, metric),
                                     Val(CallMinutes(t)))) @@ @]
    /\ UNCHANGED <<service, probe, engine, player_metrics, role_dists, position, result, frame,
                   first_call, raw, normalized, db, player_cache>>

\* Lines 316-379: tiers, base score, malus, categories, the returned mapping.
Combine(t) ==
    /\ calls[t].at = "loop"
    /\ LET pm == calls[t].player_metrics
           pos == CallPos(t)
           dist == RoleDist(role_dists, pos)
       IN /\ ScoredMetrics(pm, dist, ROLE_CONFIGS[pos])
               \subseteq DOMAIN calls[t].metric_scores
          /\ calls' = [calls EXCEPT ![t] =
               [@ EXCEPT !.at = "returned",
                         !.ret = Some(ScoreFrom(pm, dist, ROLE_CONFIGS[pos],
                                                Val(CallMinutes(t)), pos,
                                                calls[t].metric_scores).ret)]]
    /\ UNCHANGED <<service, probe, engine, player_metrics, role_dists, position, result, frame,
                   first_call, raw, normalized, db, player_cache>>

NextConcurrent == \E t \in CallIds : Enter(t) \/ ScoreMetric(t) \/ Combine(t)

SpecConcurrent == InitConcurrent /\ [][NextConcurrent]_vars

-----------------------------------------------------------------------------
(* The role configuration as data: importing attribution_engine builds     *)
(* ROLE_CONFIGS from the four literals, and every call reads it.           *)

\* ROLE_CONFIGS as written, with a tier that names no metric, and with a
\* tier whose metric weights are all 0.
ConfigTables ==
    {ROLE_CONFIGS,
     [ROLE_CONFIGS EXCEPT !["Attacker"].tier_c.metrics = EmptyDict],
     [ROLE_CONFIGS EXCEPT !["Attacker"].tier_b.metrics =
         [m \in DOMAIN @ |-> 0]]}

InitConfig ==
    /\ \E table \in ConfigTables :
         engine = Some([ROLE_CONFIGS |-> table, imported |-> FALSE])
    /\ \E minutes \in {299, 600} :
         \E pm \in Records(Some("Attacker"), Some(minutes), RoleInputs("Attacker")),
            d \in Dists(RoleInputs("Attacker") \cup {"minutes"}, <<300, 1200>>) :
           /\ player_metrics = pm
           /\ role_dists = [r \in Roles |-> d]
    /\ position = None
    /\ result = None
    /\ frame = None
    /\ first_call = None
    /\ NoBuild
    /\ NoNormalize
    /\ NoCalls
    /\ NoProbe
    /\ NoService

\* import app.analytics.attribution_engine: the literals are evaluated and
\* nothing looks at them.
Import ==
    /\ engine # None
    /\ ~Val(engine).imported
    /\ engine' = Some([Val(engine) EXCEPT !.imported = TRUE])
    /\ UNCHANGED <<service, probe, player_metrics, role_dists, position, result, frame,
                   first_call, raw, normalized, db, player_cache, calls>>

\* total_w of a tier or total_tier_weight is 0: the division raises.
DividesByZero(config, metric_scores) ==
    LET tier_scores == TierScores(config, metric_scores)
    IN \/ \E t \in DOMAIN tier_scores : tier_scores[t].d = 0
       \/ /\ tier_scores # EmptyDict
          /\ SumOver([t \in DOMAIN tier_scores |-> config[t].weight],
                     DOMAIN tier_scores) = 0

\* calculate_player_score read against a given ROLE_CONFIGS: the exception
\* it raises, or the mapping it returns.
CallWithTable(table, pm, dists, pos_arg) ==
    LET pos0 == FirstPos(pm, pos_arg)
        minutes == PlayerGet(pm, "minutes")
        pos == IF pos0 \notin DOMAIN table THEN "Midfielder" ELSE pos0
        config == table[pos]
        dist == RoleDist(dists, pos)
    IN IF InsufficientMinutes(minutes) \/ dist = EmptyDict
       THEN [raised |-> None, ret |-> Some(null_result)]
       ELSE LET metric_scores == MetricScores(pm, dist, config, Val(minutes))
            IN IF DividesByZero(config, metric_scores)
               THEN [raised |-> Some("ZeroDivisionError"), ret |-> None]
               ELSE [raised |-> None,
                     ret |-> Some(ScoreFrom(pm, dist, config, Val(minutes), pos,
                                            metric_scores).ret)]

\* One call of calculate_player_score of the imported module; result holds
\* [raised, ret].
ScoreConfigured ==
    /\ engine # None
    /\ Val(engine).imported
    /\ result = None
    /\ result' = Some(CallWithTable(Val(engine).ROLE_CONFIGS, player_metrics,
                                    role_dists, position))
    /\ UNCHANGED <<service, probe, engine, player_metrics, role_dists, position, frame,
                   first_call, raw, normalized, db, player_cache, calls>>

NextConfig == Import \/ ScoreConfigured

SpecConfig == InitConfig /\ [][NextConfig]_vars

-----------------------------------------------------------------------------
(* The helper functions on their own: one call of _empirical_percentile    *)
(* (for two values against the same list), of _shrink or of _winsorize.    *)

MaxSorted == 4      \* length of the ascending lists given to _empirical_percentile

\* Metric values of the lists and the values looked up in them.
SortedValues == 0..3
LookupValues == -1..4

\* Ascending lists, ties allowed.
AscendingLists ==
    UNION {{l \in [1..n -> SortedValues] :
               \A i \in 1..n : i < n => l[i] <= l[i + 1]} : n \in 1..MaxSorted}

\* Percentiles (tenths) and minutes given to _shrink.
ShrinkPercentiles == {0, 1, 250, 333, 500, 667, 755, 999, 1000}
ShrinkMinutes == {0, 1, 300, 599, 600, 1199, 1200, 1201, 3000}

\* Lists given to _winsorize: short ones, and long ones of a few shapes.
WinsorLengths == (0..3) \cup {9, 10, 11, 99, 100, 101, 150, 200}
WinsorShapes == {"up", "down", "flat", "spikes", "steps"}
WinsorList(shape, n) ==
    [i \in 1..n |->
        CASE shape = "up" -> i
          [] shape = "down" -> n - i
          [] shape = "flat" -> 7
          [] shape = "spikes" -> IF i = 2 THEN -1000 ELSE IF i = n THEN 1000
                                 ELSE IF i = 1 THEN 900 ELSE i % 5
          [] shape = "steps" -> (n - i) \div 3]

InitHelpers ==
    /\ \/ \E l \in AscendingLists, v \in LookupValues, w \in LookupValues :
            probe = Some([fn |-> "_empirical_percentile",
                          args |-> [sorted_values |-> l, v |-> v, w |-> w],
                          out |-> None])
       \/ \E p \in ShrinkPercentiles, minutes \in ShrinkMinutes :
            probe = Some([fn |-> "_shrink",
                          args |-> [percentile |-> p, minutes |-> minutes],
                          out |-> None])
       \/ \E shape \in WinsorShapes, n \in WinsorLengths :
            probe = Some([fn |-> "_winsorize",
                          args |-> [values |-> WinsorList(shape, n)],
                          out |-> None])
    /\ player_metrics = None
    /\ role_dists = None
    /\ position = None
    /\ result = None
    /\ frame = None
    /\ first_call = None
    /\ NoBuild
    /\ NoNormalize
    /\ NoCalls
    /\ NoEngine
    /\ NoService

HelperUnchanged ==
    UNCHANGED <<service, player_metrics, role_dists, position, result, frame, first_call,
                raw, normalized, db, player_cache, calls, engine>>

\* _empirical_percentile(v, l) and _empirical_percentile(w, l)
CallPercentile ==
    /\ probe # None
    /\ Val(probe).fn = "_empirical_percentile"
    /\ Val(probe).out = None
    /\ probe' = Some([Val(probe) EXCEPT !.out = Some(
         [v |-> _empirical_percentile(Val(probe).args.v, Val(probe).args.sorted_values),
          w |-> _empirical_percentile(Val(probe).args.w, Val(probe).args.sorted_values)])])
    /\ HelperUnchanged

\* _shrink(percentile, minutes)
CallShrink ==
    /\ probe # None
    /\ Val(probe).fn = "_shrink"
    /\ Val(probe).out = None
    /\ probe' = Some([Val(probe) EXCEPT !.out =
         Some(_shrink(Val(probe).args.percentile, Val(probe).args.minutes))])
    /\ HelperUnchanged

\* _winsorize(values)
CallWinsorize ==
    /\ probe # None
    /\ Val(probe).fn = "_winsorize"
    /\ Val(probe).out = None
    /\ probe' = Some([Val(probe) EXCEPT !.out =
         Some(_winsorize(Val(probe).args.values))])
    /\ HelperUnchanged

NextHelpers == CallPercentile \/ CallShrink \/ CallWinsorize

SpecHelpers == InitHelpers /\ [][NextHelpers]_vars

-----------------------------------------------------------------------------
(* Repeated calls: a caller that scores one record after another and       *)
(* remembers one of the calls.                                             *)

RepeatRecords ==
    {("position" :> Some("Attacker")) @@ ("minutes" :> Some(minutes))
        @@ [m \in present |-> Some(1200)] :
        minutes \in {299, 600, 1200},
        present \in SUBSET {"goals_per_90", "pass_accuracy", "yellow_per_90"}}

RepeatDists ==
    {[r \in Roles |-> EmptyDict], [r \in Roles |-> ProbeDist(r)]}

RepeatOverrides == {None, Some("Coach")}

InitRepeat ==
    /\ player_metrics \in RepeatRecords
    /\ role_dists \in RepeatDists
    /\ position \in RepeatOverrides
    /\ result = None
    /\ frame = None
    /\ first_call = None
    /\ NoBuild
    /\ NoNormalize
    /\ NoCalls
    /\ NoEngine
    /\ NoProbe
    /\ NoService

\* The caller keeps the arguments and the result of the call just made.
Remember ==
    /\ result # None
    /\ first_call = None
    /\ first_call' = Some([player_metrics |-> player_metrics,
                           role_dists |-> role_dists,
                           position |-> position,
                           result |-> Val(result)])
    /\ UNCHANGED <<service, probe, engine, calls, player_metrics, role_dists, position, result, frame,
                   raw, normalized, db, player_cache>>

\* The caller prepares the next call with arguments of its choice.
NextCall ==
    /\ result # None
    /\ player_metrics' \in RepeatRecords
    /\ role_dists' \in RepeatDists
    /\ position' \in RepeatOverrides
    /\ result' = None
    /\ UNCHANGED <<service, probe, engine, calls, frame, first_call, raw, normalized, db, player_cache>>

NextRepeat == Score \/ Remember \/ NextCall

SpecRepeat == InitRepeat /\ [][NextRepeat]_vars

-----------------------------------------------------------------------------
(* Inputs of normalize_position: every label of the table in several       *)
(* casings with up to MaxPad blanks on either side, and labels that are    *)
(* not in the table.                                                       *)

MaxPad == 1

UpperChar(c) ==
    LET hits == {i \in 1..Len(LowerLetters) : CharAt(LowerLetters, i) = c}
    IN IF hits = {} THEN c ELSE CharAt(UpperLetters, CHOOSE i \in hits : TRUE)

RECURSIVE Upper(_)
Upper(s) == IF Len(s) = 0 THEN "" ELSE UpperChar(CharAt(s, 1)) \o Upper(Tail(s))

\* Upper case at the odd positions only.
RECURSIVE Alternate(_)
Alternate(s) ==
    IF Len(s) = 0 THEN ""
    ELSE IF Len(s) = 1 THEN UpperChar(s)
    ELSE UpperChar(CharAt(s, 1)) \o CharAt(s, 2) \o Alternate(Tail(Tail(s)))

Casings == {"lower", "upper", "capitalized", "alternate"}

Cased(s, casing) ==
    CASE casing = "lower" -> s
      [] casing = "upper" -> Upper(s)
      [] casing = "capitalized" -> UpperChar(CharAt(s, 1)) \o Tail(s)
      [] casing = "alternate" -> Alternate(s)

RECURSIVE Blanks(_)
Blanks(n) == IF n = 0 THEN "" ELSE (IF n % 2 = 1 THEN " " ELSE "\t") \o Blanks(n - 1)

Variant(key, casing, left, right) == Blanks(left) \o Cased(key, casing) \o Blanks(right)

KnownLabels ==
    {Variant(k, c, l, r) : k \in DOMAIN _POSITION_MAP, c \in Casings,
                           l \in 0..MaxPad, r \in 0..MaxPad}

UnknownLabels ==
    {"", " ", "\t", "coach", "Libero", "GK", "goal keeper", "mid-fielder",
     "right  winger", "defenders", "wing", "left_back", "Attacker!"}

InitNormalize ==
    /\ raw \in {None} \cup {Some(l) : l \in KnownLabels \cup UnknownLabels}
    /\ normalized = None
    /\ player_metrics = EmptyDict
    /\ role_dists = EmptyDict
    /\ position = None
    /\ result = None
    /\ frame = None
    /\ first_call = None
    /\ NoBuild
    /\ NoCalls
    /\ NoEngine
    /\ NoProbe
    /\ NoService

\* One call of normalize_position.
Normalize ==
    /\ normalized = None
    /\ normalized' = Some(normalize_position(raw))
    /\ UNCHANGED <<service, probe, engine, calls, player_metrics, role_dists, position, result, frame,
                   first_call, raw, db, player_cache>>

NextNormalize == Normalize

SpecNormalize == InitNormalize /\ [][NextNormalize]_vars

-----------------------------------------------------------------------------
(* services/player_metrics.py and services/player_service.py: the engine   *)
(* behind get_team_players. Its helpers (_per_90, _pct,                    *)
(* _empirical_percentile, _shrink, _compute_tier_score) and the body of    *)
(* its calculate_player_score from the per-metric loop on are line for     *)
(* line those of the analytics package; its configuration, its derivation  *)
(* and its builder are its own.                                            *)

CAPTAIN_SCORE_YES == 850
CAPTAIN_SCORE_NO == 400

Service_ATTACKER_CONFIG ==
    [tier_a |-> [weight |-> 70,
                 metrics |-> ("goals_per_90" :> 25) @@ ("shots_on_per_90" :> 8)
                          @@ ("shot_accuracy_pct" :> 7) @@ ("assists_per_90" :> 10)
                          @@ ("key_passes_per_90" :> 7) @@ ("dribbles_success_pct" :> 5)
                          @@ ("pass_accuracy" :> 8)],
     tier_b |-> [weight |-> 20,
                 metrics |-> ("minutes" :> 8) @@ ("rating" :> 8) @@ ("appearances" :> 4)],
     tier_c |-> [weight |-> 10,
                 metrics |-> ("match_winning_goals" :> 6) @@ ("captain" :> 2)
                          @@ ("points_contribution" :> 2)],
     malus  |-> ("yellow_per_90" :> -4) @@ ("red_per_90" :> -6)]

Service_MIDFIELDER_CONFIG ==
    [tier_a |-> [weight |-> 70,
                 metrics |-> ("goals_per_90" :> 8) @@ ("assists_per_90" :> 12)
                          @@ ("key_passes_per_90" :> 15) @@ ("pass_accuracy" :> 12)
                          @@ ("dribbles_success_pct" :> 8) @@ ("duels_won_pct" :> 8)
                          @@ ("tackles_per_90" :> 4) @@ ("interceptions_per_90" :> 3)],
     tier_b |-> [weight |-> 20,
                 metrics |-> ("minutes" :> 8) @@ ("rating" :> 8) @@ ("appearances" :> 4)],
     tier_c |-> [weight |-> 10,
                 metrics |-> ("match_winning_goals" :> 4) @@ ("captain" :> 3)
                          @@ ("points_contribution" :> 3)],
     malus  |-> ("yellow_per_90" :> -4) @@ ("red_per_90" :> -6)]

Service_DEFENDER_CONFIG ==
    [tier_a |-> [weight |-> 70,
                 metrics |-> ("tackles_per_90" :> 15) @@ ("interceptions_per_90" :> 12)
                          @@ ("blocks_per_90" :> 8) @@ ("duels_won_pct" :> 15)
                          @@ ("pass_accuracy" :> 10) @@ ("goals_per_90" :> 4)
                          @@ ("assists_per_90" :> 3) @@ ("key_passes_per_90" :> 3)],
     tier_b |-> [weight |-> 20,
                 metrics |-> ("minutes" :> 8) @@ ("rating" :> 8) @@ ("appearances" :> 4)],
     tier_c |-> [weight |-> 10,
                 metrics |-> ("match_winning_goals" :> 2) @@ ("captain" :> 4)
                          @@ ("points_contribution" :> 4)],
     malus  |-> ("yellow_per_90" :> -4) @@ ("red_per_90" :> -6)]

Service_GOALKEEPER_CONFIG ==
    [tier_a |-> [weight |-> 70,
                 metrics |-> ("saves_per_90" :> 20) @@ ("goals_conceded_per_90" :> 20)
                          @@ ("pass_accuracy" :> 15) @@ ("duels_won_pct" :> 15)],
     tier_b |-> [weight |-> 20,
                 metrics |-> ("minutes" :> 8) @@ ("rating" :> 8) @@ ("appearances" :> 4)],
     tier_c |-> [weight |-> 10,
                 metrics |-> ("captain" :> 4) @@ ("points_contribution" :> 6)],
     malus  |-> ("yellow_per_90" :> -4) @@ ("red_per_90" :> -6)]

Service_ROLE_CONFIGS ==
    ("Attacker" :> Service_ATTACKER_CONFIG) @@ ("Midfielder" :> Service_MIDFIELDER_CONFIG)
    @@ ("Defender" :> Service_DEFENDER_CONFIG) @@ ("Goalkeeper" :> Service_GOALKEEPER_CONFIG)

Service_CATEGORY_METRICS ==
    [attack   |-> {"goals_per_90", "shots_on_per_90", "shot_accuracy_pct"},
     creation |-> {"assists_per_90", "key_passes_per_90", "dribbles_success_pct",
                   "pass_accuracy"},
     defense  |-> {"tackles_per_90", "interceptions_per_90", "duels_won_pct",
                   "blocks_per_90", "saves_per_90", "goals_conceded_per_90"},
     impact   |-> {"minutes", "rating", "appearances", "captain",
                   "match_winning_goals", "points_contribution"}]

\* bool(x) of a nullable boolean column
bool(x) == x # None /\ Val(x)

\* calculate_all_metrics(stats)
calculate_all_metrics(stats) ==
    LET minutes == StatsGet(stats, "minutes")
        rating == StatsGet(stats, "rating")
    IN [goals_per_90 |-> _per_90(StatsGet(stats, "goals"), minutes),
        assists_per_90 |-> _per_90(StatsGet(stats, "assists"), minutes),
        shots_per_90 |-> _per_90(StatsGet(stats, "shots_total"), minutes),
        shots_on_per_90 |-> _per_90(StatsGet(stats, "shots_on"), minutes),
        key_passes_per_90 |-> _per_90(StatsGet(stats, "key_passes"), minutes),
        tackles_per_90 |-> _per_90(StatsGet(stats, "tackles_total"), minutes),
        interceptions_per_90 |-> _per_90(StatsGet(stats, "interceptions"), minutes),
        blocks_per_90 |-> _per_90(StatsGet(stats, "blocks"), minutes),
        saves_per_90 |-> _per_90(StatsGet(stats, "saves"), minutes),
        goals_conceded_per_90 |-> _per_90(StatsGet(stats, "goals_conceded"), minutes),
        yellow_per_90 |-> _per_90(StatsGet(stats, "yellow_cards"), minutes),
        red_per_90 |-> _per_90(StatsGet(stats, "red_cards"), minutes),
        shot_accuracy_pct |-> _pct(StatsGet(stats, "shots_on"),
                                   StatsGet(stats, "shots_total")),
        pass_accuracy |-> StatsGet(stats, "pass_accuracy"),
        duels_won_pct |-> _pct(StatsGet(stats, "duels_won"),
                               StatsGet(stats, "duels_total")),
        dribbles_success_pct |-> _pct(StatsGet(stats, "dribbles_success"),
                                      StatsGet(stats, "dribbles_attempts")),
        minutes |-> IF minutes # None /\ Val(minutes) >= MIN_MINUTES
                    THEN minutes ELSE None,
        appearances |-> StatsGet(stats, "appearances"),
        rating |-> _nullable_float(rating),
        captain |-> IF bool(StatsGet(stats, "captain"))
                    THEN Some(CAPTAIN_SCORE_YES) ELSE Some(CAPTAIN_SCORE_NO),
        match_winning_goals |-> None,
        points_contribution |-> None]

\* role = stats.get("position") or "Midfielder", Midfielder if unknown
Service_RoleOf(stats) ==
    LET role == IF Truthy(StatsGet(stats, "position"))
                THEN Val(StatsGet(stats, "position")) ELSE "Midfielder"
    IN IF role \in DOMAIN Service_ROLE_CONFIGS THEN role ELSE "Midfielder"

\* build_role_distributions(all_player_stats) of the service
Service_build_role_distributions(all_player_stats) ==
    LET qualified == SeasonStatsQuery(all_player_stats, MIN_MINUTES)
        role_players(role) ==
            LET of_role == SelectSeq(qualified, LAMBDA st : Service_RoleOf(st) = role)
            IN [i \in 1..Len(of_role) |-> calculate_all_metrics(of_role[i])]
        all_keys(players) == UNION {DOMAIN players[i] : i \in 1..Len(players)}
    IN [role \in DOMAIN Service_ROLE_CONFIGS |->
          LET players == role_players(role)
              kept == {metric \in all_keys(players) \ DIRECT_SCORE_METRICS :
                          Len(MetricValuesOf(players, metric)) > 0}
          IN [metric \in kept |-> Sorted(MetricValuesOf(players, metric))]]

Service_null_result ==
    [overall_score |-> None, attack_score |-> None, creation_score |-> None,
     defense_score |-> None, impact_score |-> None, discipline_malus |-> None,
     breakdown |-> None]

\* calculate_player_score(stats, role_dists) of the service
Service_calculate_player_score(stats, dists) ==
    LET minutes == StatsGet(stats, "minutes")
        pos == Service_RoleOf(stats)
        config == Service_ROLE_CONFIGS[pos]
        dist == DictGet(dists, pos, EmptyDict)
        derived == calculate_all_metrics(stats)
        metric_scores == MetricScores(derived, dist, config, Val(minutes))
        tier_scores == TierScores(config, metric_scores)
        base_score == BaseScore(config, tier_scores)
        discipline_malus == DisciplineMalus(Malus(derived, dist, config, Val(minutes)))
    IN IF minutes = None \/ Val(minutes) < MIN_MINUTES THEN Service_null_result
       ELSE IF dist = EmptyDict THEN Service_null_result
       ELSE IF tier_scores = EmptyDict THEN Service_null_result
       ELSE [overall_score |-> Some(OverallScore(base_score, discipline_malus)),
             attack_score |-> CategoryScore(Service_CATEGORY_METRICS.attack, metric_scores),
             creation_score |-> CategoryScore(Service_CATEGORY_METRICS.creation, metric_scores),
             defense_score |-> CategoryScore(Service_CATEGORY_METRICS.defense, metric_scores),
             impact_score |-> CategoryScore(Service_CATEGORY_METRICS.impact, metric_scores),
             discipline_malus |-> Some(discipline_malus),
             breakdown |-> Some(Breakdown(derived, dist, config, Val(minutes),
                                          metric_scores))]

\* _row_to_stats_dict(row); the pass and rating columns are held in
\* hundredths, which round(float(val), 2) keeps.
_row_to_stats_dict(row) ==
    ("position" :> IF Truthy(StatsGet(row, "position"))
                   THEN StatsGet(row, "position") ELSE Some(""))
    @@ ("captain" :> Some(bool(StatsGet(row, "captain"))))
    @@ ("pass_accuracy" :> StatsGet(row, "passes_accuracy"))
    @@ [c \in {"minutes", "appearances", "goals", "assists", "shots_total",
               "shots_on", "key_passes", "tackles_total", "interceptions",
               "blocks", "duels_total", "duels_won", "dribbles_attempts",
               "dribbles_success", "yellow_cards", "red_cards",
               "fouls_committed", "saves", "goals_conceded", "rating"} |->
          StatsGet(row, c)]

\* ROLE_DISTRIBUTION_SQL: the rows of the season with minutes >= 300.
\* _compute_role_distributions(season, db): {} when the query fails.
_compute_role_distributions(database) ==
    IF ~database.up THEN EmptyDict
    ELSE LET rows == SeasonStatsQuery(database.stats, 300)
         IN Service_build_role_distributions(
                [i \in 1..Len(rows) |-> _row_to_stats_dict(rows[i])])

\* TEAM_PLAYERS_SQL_LEGACY: a row as the legacy query returns it.
LegacyRow(row) ==
    ("captain" :> Some(FALSE))
    @@ [c \in {"shots_total", "shots_on", "yellow_cards", "red_cards",
               "tackles_total", "interceptions", "duels_total", "duels_won",
               "dribbles_attempts", "dribbles_success", "key_passes",
               "fouls_committed", "blocks", "saves", "goals_conceded"} |-> Some(0)]
    @@ row

\* The rows of the team: TEAM_PLAYERS_SQL, or the legacy query where the
\* first one fails. Neither looks at the minutes.
TeamRows(database) ==
    IF database.up THEN database.stats
    ELSE [i \in 1..Len(database.stats) |-> LegacyRow(database.stats[i])]

\* A row of the join: position, minutes, goals and the captain flag, two
\* yellow cards, every other column NULL.
ServiceRow(pos, minutes, goals, captain) ==
    ("position" :> pos) @@ ("minutes" :> minutes) @@ ("goals" :> goals)
    @@ ("captain" :> captain) @@ ("yellow_cards" :> Some(2))
    @@ ("appearances" :> Some(10))
    @@ [c \in StatsColumns |-> None]

ServiceRowPool ==
    {ServiceRow(Some("Attacker"), Some(1200), Some(10), Some(TRUE)),
     ServiceRow(Some("Attacker"), Some(300), Some(1), Some(FALSE)),
     ServiceRow(Some("Attacker"), Some(600), Some(2), None),
     ServiceRow(Some("Goalkeeper"), Some(299), None, Some(TRUE)),
     ServiceRow(None, Some(900), Some(0), Some(TRUE)),
     ServiceRow(Some("Defender"), None, None, Some(TRUE))}

InitService ==
    /\ \E table \in UNION {[1..n -> ServiceRowPool] : n \in 0..MaxPop}, up \in BOOLEAN :
         db = Some([up |-> up, stats |-> table])
    /\ service = None
    /\ player_metrics = None
    /\ role_dists = None
    /\ position = None
    /\ result = None
    /\ frame = None
    /\ first_call = None
    /\ player_cache = None
    /\ NoNormalize
    /\ NoCalls
    /\ NoEngine
    /\ NoProbe

\* get_team_players, first step: role_dists = _compute_role_distributions(season, db)
ComputeRoleDistributions ==
    /\ service = None
    /\ role_dists' = _compute_role_distributions(Val(db))
    /\ service' = Some([raw |-> None, derived |-> None, scores |-> None])
    /\ UNCHANGED <<player_metrics, position, result, frame, first_call, raw,
                   normalized, db, player_cache, calls, engine, probe>>

\* _enrich_row(row, role_dists) for one row of the team
EnrichRow ==
    /\ service # None
    /\ \E i \in 1..Len(TeamRows(Val(db))) :
         LET stats == _row_to_stats_dict(TeamRows(Val(db))[i])
         IN service' = Some([raw |-> Some(stats),
                             derived |-> Some(calculate_all_metrics(stats)),
                             scores |-> Some(Service_calculate_player_score(
                                                 stats, role_dists))])
    /\ UNCHANGED <<player_metrics, role_dists, position, result, frame, first_call,
                   raw, normalized, db, player_cache, calls, engine, probe>>

NextService == ComputeRoleDistributions \/ EnrichRow

SpecService == InitService /\ [][NextService]_vars

-----------------------------------------------------------------------------
(* The last call, as the properties see it *)

Called == result # None
Ret == Val(result)
Fr == Val(frame)

ArgMinutes == PlayerGet(player_metrics, "minutes")
ArgRole == FirstPos(player_metrics, position)

\* The role whose configuration and distribution the call uses.
CallRole == IF ArgRole \in Roles THEN ArgRole ELSE "Midfielder"
CallConfig == ROLE_CONFIGS[CallRole]
CallDist == IF CallRole \in DOMAIN role_dists THEN role_dists[CallRole] ELSE EmptyDict

\* The call got past the minutes and distribution guards.
Scored == Called /\ Fr.reached \in {"tiers", "return"}

\* The metric has a value in the record and a non-empty list in the distribution.
Available(m) ==
    /\ m \in DOMAIN player_metrics
    /\ player_metrics[m] # None
    /\ \/ m \in DIRECT_SCORE_METRICS
       \/ m \in DOMAIN CallDist /\ Len(CallDist[m]) > 0

\* base_score + discipline_malus before clipping, numerator over base_score.d
UnclippedNum ==
    Val(Fr.base_score).n + Val(Ret.discipline_malus) * Val(Fr.base_score).d

-----------------------------------------------------------------------------
(* C1: the overall_score returned by calculate_player_score is null or a   *)
(* number in [0.0, 100.0] (0..1000 tenths), for every record and mapping.  *)
C1_OverallInRange ==
    Called =>
      \/ Ret.overall_score = None
      \/ Val(Ret.overall_score) \in 0..1000

\* A call where the lower clip binds: base plus malus is negative, overall is 0.
C1_Witness ==
    /\ Called
    /\ Fr.reached = "return"
    /\ UnclippedNum < 0
    /\ Ret.overall_score = Some(0)

(* C2: a non-null discipline_malus lies in [-10.0, 0.0] (-100..0 tenths),  *)
(* whatever the card rates and the contents of the role distribution.      *)
C2_MalusInRange ==
    (Called /\ Ret.discipline_malus # None) =>
      Val(Ret.discipline_malus) \in (-100)..0

\* Both card rates at the top of their lists at full reliability: exactly -10.
C2_Witness ==
    /\ Called
    /\ Ret.discipline_malus = Some(-100)
    /\ Available("yellow_per_90")
    /\ Available("red_per_90")

(* C3: with minutes null or below 300 the call returns the all-null result *)
(* (every score, the malus, the reliability index and the breakdown null), *)
(* regardless of role and distributions.                                   *)
C3_BelowThresholdNull ==
    (Called /\ (ArgMinutes = None \/ Val(ArgMinutes) < 300)) =>
      /\ Ret.overall_score = None
      /\ Ret.attack_score = None
      /\ Ret.creation_score = None
      /\ Ret.defense_score = None
      /\ Ret.impact_score = None
      /\ Ret.discipline_malus = None
      /\ Ret.reliability_index = None
      /\ Ret.breakdown = None

\* 299 minutes, a configured role, and a distribution that would score.
C3_Witness ==
    /\ Called
    /\ ArgMinutes = Some(299)
    /\ ArgRole \in Roles
    /\ CallDist # EmptyDict
    /\ Ret = null_result

\* The rows build_role_distributions read from the database.
BuiltFrom == SeasonStatsQuery(Val(db).stats, MIN_MINUTES)

(* C4: an athlete with minutes = 300 or more gets a non-null overall_score *)
(* whenever the distribution of the athlete's role was produced by         *)
(* build_role_distributions from records that all have minutes >= 300 and  *)
(* is non-empty.                                                           *)
C4_ThresholdAthleteScored ==
    (/\ Called
     /\ player_cache # None
     /\ \A i \in DOMAIN BuiltFrom :
          BuiltFrom[i]["minutes"] # None /\ Val(BuiltFrom[i]["minutes"]) >= 300
     /\ ArgMinutes # None /\ Val(ArgMinutes) >= 300
     /\ CallDist # EmptyDict)
    => Ret.overall_score # None

\* A record with exactly 300 minutes and no other metric, scored against a
\* built, non-empty distribution of its role.
C4_Witness ==
    /\ Called
    /\ player_cache # None
    /\ player_metrics \in Newcomers
    /\ ArgMinutes = Some(300)
    /\ BuiltFrom # << >>
    /\ CallDist # EmptyDict
    /\ Ret.overall_score # None

\* build_role_distributions has returned and nothing was scored since.
JustBuilt == player_cache # None /\ result = None

\* The rows of the table whose minutes are null or below 300.
Disqualified ==
    {i \in DOMAIN Val(db).stats :
        \/ Val(db).stats[i]["minutes"] = None
        \/ Val(Val(db).stats[i]["minutes"]) < 300}

\* The database without the disqualified rows.
WithoutDisqualified ==
    [Val(db) EXCEPT !.stats = SelectSeq(@, LAMBDA row :
        row["minutes"] # None /\ Val(row["minutes"]) >= 300)]

(* C11: a record whose minutes are null or below 300 contributes no value  *)
(* to any metric list of any role: the distributions are the ones built    *)
(* from the table without these records, and no list is longer than the    *)
(* number of remaining records.                                            *)
C11_DisqualifiedContributeNothing ==
    (JustBuilt /\ Val(db).up) =>
      /\ role_dists = build_role_distributions(WithoutDisqualified)[1]
      /\ \A role \in DOMAIN role_dists : \A metric \in DOMAIN role_dists[role] :
           Len(role_dists[role][metric])
             <= Len(Val(db).stats) - Cardinality(Disqualified)

\* An Attacker row under the threshold (or without minutes) next to three
\* qualifying Attacker rows: the lists have three values, not four.
C11_Witness ==
    /\ JustBuilt
    /\ Val(db).up
    /\ \E i \in Disqualified :
         /\ normalize_position(Val(db).stats[i]["position"]) = "Attacker"
         /\ Val(db).stats[i]["appearances"] # None
    /\ "appearances" \in DOMAIN role_dists["Attacker"]
    /\ Len(role_dists["Attacker"]["appearances"]) = 3

\* The derived records of the rows the query returned.
DerivedRows ==
    [i \in DOMAIN BuiltFrom |->
        DerivedOfRow(BuiltFrom[i], Val(db).clean_sheets, Val(db).impact)]

\* Number of athletes of the role with a non-absent value of the metric.
ValueCountIn(derived, role, metric) ==
    Cardinality({i \in DOMAIN derived :
                    /\ derived[i]["position"] = Some(role)
                    /\ DictGet(derived[i], metric, None) # None})

ValueCount(role, metric) == ValueCountIn(DerivedRows, role, metric)

\* Every metric name of a derived record or of the distributable set.
MetricNamesIn(derived) ==
    (DISTRIBUTABLE_METRICS \cup UNION {DOMAIN derived[i] : i \in DOMAIN derived})
    \ {"position"}

(* C12: a metric is in a role's distribution if and only if it is          *)
(* distributable and at least 3 athletes of the role have a value for it;  *)
(* with 0, 1 or 2 values it is omitted.                                    *)
C12_ThreeValuesOrOmitted ==
    (JustBuilt /\ Val(db).up) =>
      LET derived == DerivedRows
          names == MetricNamesIn(derived)
      IN \A role \in Roles : \A metric \in names \cup DOMAIN role_dists[role] :
           metric \in DOMAIN role_dists[role]
             <=> (/\ metric \in DISTRIBUTABLE_METRICS
                  /\ ValueCountIn(derived, role, metric) >= 3)

\* Three Attackers: goals_per_90 has two values and is omitted, minutes has
\* three and is kept, shots_per_90 has three but is not distributable.
C12_Witness ==
    /\ JustBuilt
    /\ Val(db).up
    /\ Len(BuiltFrom) = 3
    /\ "minutes" \in DOMAIN role_dists["Attacker"]
    /\ "goals_per_90" \notin DOMAIN role_dists["Attacker"]
    /\ "shots_per_90" \notin DOMAIN role_dists["Attacker"]
    /\ ValueCount("Attacker", "goals_per_90") = 2
    /\ ValueCount("Attacker", "minutes") = 3
    /\ ValueCount("Attacker", "shots_per_90") = 3

(* C13: for an empty population build_role_distributions returns a mapping *)
(* with exactly the four roles, each with an empty distribution (and an    *)
(* empty cache).                                                           *)
C13_EmptyPopulationFourEmptyRoles ==
    (JustBuilt /\ Val(db).up /\ BuiltFrom = << >>) =>
      /\ DOMAIN role_dists = {"Goalkeeper", "Defender", "Midfielder", "Attacker"}
      /\ \A role \in DOMAIN role_dists : role_dists[role] = EmptyDict
      /\ player_cache = Some(EmptyDict)

\* The season has no row at all and the database answers.
C13_Witness ==
    /\ JustBuilt
    /\ Val(db).up
    /\ Val(db).stats = << >>
    /\ DOMAIN role_dists = Roles

(* C14: however the steps of several invocations that share one           *)
(* distribution mapping interleave, each invocation returns what the call  *)
(* returns when run alone, and no step changes the distribution mapping or *)
(* an input record.                                                        *)
C14_InterleavedCallsIndependent ==
    /\ [](\A t \in CallIds :
            calls[t].at = "returned" =>
              calls[t].ret = Some(calculate_player_score(
                  calls[t].player_metrics, role_dists, calls[t].position).ret))
    /\ [][/\ role_dists' = role_dists
          /\ \A t \in CallIds :
               /\ calls'[t].player_metrics = calls[t].player_metrics
               /\ calls'[t].position = calls[t].position]_vars

\* One invocation has returned a score while another, on a different
\* record, is in the middle of its per-metric loop with a score stored.
C14_Witness ==
    /\ calls # None
    /\ \E t, u \in CallIds :
         /\ calls[t].at = "returned"
         /\ Val(calls[t].ret).overall_score # None
         /\ calls[u].at = "loop"
         /\ calls[u].metric_scores # EmptyDict
         /\ ScoredMetrics(calls[u].player_metrics,
                          RoleDist(role_dists, CallPos(u)),
                          ROLE_CONFIGS[CallPos(u)])
              # DOMAIN calls[u].metric_scores
         /\ calls[t].player_metrics # calls[u].player_metrics

\* A tier/weight table is malformed when a tier of a role names no metric,
\* or has metric weights that do not add up to a positive number, or has no
\* positive weight itself.
Malformed(table) ==
    \E role \in DOMAIN table : \E j \in 1..Len(TierNames) :
        LET t == TierNames[j]
        IN t \in DOMAIN table[role] /\
             \/ table[role][t].metrics = EmptyDict
             \/ SumOver(table[role][t].metrics, DOMAIN table[role][t].metrics) <= 0
             \/ table[role][t].weight <= 0

(* C15: a malformed tier/weight configuration is reported as a failure at  *)
(* initialization: the module is never imported with it, and no scoring    *)
(* call ever runs against it.                                              *)
C15_MalformedConfigFailsAtInit ==
    (engine # None /\ Malformed(Val(engine).ROLE_CONFIGS)) =>
      (~Val(engine).imported /\ result = None)

(* C5 (as claimed): when the resolved role is not one of the four          *)
(* configured roles the call returns the all-null result, even with        *)
(* minutes >= 300 and non-empty distributions.                             *)
C5_UnconfiguredRoleNull ==
    (Called /\ ArgRole \notin Roles) => Ret = null_result

(* C5 (amended): when the resolved role is not one of the four configured  *)
(* roles the call scores the athlete as a Midfielder: it returns what the  *)
(* call with role override "Midfielder" returns, which is non-null when    *)
(* minutes >= 300 and the Midfielder distribution has a minutes list.      *)
C5_UnconfiguredRoleIsMidfielder ==
    (Called /\ ArgRole \notin Roles) =>
      /\ Ret = calculate_player_score(player_metrics, role_dists,
                                      Some("Midfielder")).ret
      /\ Fr.pos \in {ArgRole, "Midfielder"}
      /\ (/\ ArgMinutes # None
          /\ Val(ArgMinutes) >= 300
          /\ "Midfielder" \in DOMAIN role_dists
          /\ "minutes" \in DOMAIN role_dists["Midfielder"])
         => Ret.overall_score # None

\* An unconfigured role label that is scored against the Midfielder lists,
\* which differ from the lists of the other roles.
C5_Witness ==
    /\ Called
    /\ ArgRole = "Coach"
    /\ Ret.overall_score # None
    /\ "Defender" \in DOMAIN role_dists
    /\ role_dists["Defender"] # role_dists["Midfielder"]
    /\ Val(Ret.breakdown)["minutes"].percentile
         = _empirical_percentile(Val(ArgMinutes), role_dists["Midfielder"]["minutes"])

(* C6: when the mapping has no entry for the athlete's role, or the role's *)
(* distribution holds no metric, the call returns the all-null result and  *)
(* no per-metric score is computed (metric_scores is never created).       *)
C6_EmptyDistNull ==
    (/\ Called
     /\ ArgMinutes # None
     /\ Val(ArgMinutes) >= 300
     /\ \/ CallRole \notin DOMAIN role_dists
        \/ DOMAIN role_dists[CallRole] = {}) =>
      /\ Ret = null_result
      /\ Fr.reached = "guard"
      /\ Fr.metric_scores = None
      /\ Fr.tier_scores = None

\* Enough minutes, a record with metric values, other roles with lists, and
\* the athlete's own role present in the mapping with an empty distribution.
C6_Witness ==
    /\ Called
    /\ ArgMinutes = Some(1200)
    /\ PlayerGet(player_metrics, "goals_per_90") # None
    /\ CallRole \in DOMAIN role_dists
    /\ role_dists[CallRole] = EmptyDict
    /\ \E r \in DOMAIN role_dists : role_dists[r] # EmptyDict
    /\ Ret = null_result

\* The other case: the athlete's role has no entry at all.
C6_WitnessNoEntry ==
    /\ Called
    /\ ArgMinutes = Some(1200)
    /\ CallRole \notin DOMAIN role_dists
    /\ DOMAIN role_dists # {}
    /\ Ret = null_result

(* C7: a metric without a value in the record or without a list in the     *)
(* role distribution gets no score; each tier score is the weighted mean,  *)
(* by point weight, of the available metric scores of the tier only, and a *)
(* tier with an absent metric differs from the mean with a zero imputed.   *)
C7_AbsentMetricsExcluded ==
    Scored =>
      LET ms == Val(Fr.metric_scores)
          ts == Val(Fr.tier_scores)
      IN /\ DOMAIN ms = {m \in AllTierMetrics(CallConfig) : Available(m)}
         /\ \A i \in 1..3 :
              LET t == TierNames[i]
                  w == CallConfig[t].metrics
                  avail == {m \in DOMAIN w : Available(m)}
                  sw == SumOver([m \in avail |-> ms[m] * w[m]], avail)
              IN IF avail = {}
                 THEN t \notin DOMAIN ts
                 ELSE /\ t \in DOMAIN ts
                      /\ ts[t].n * SumOver(w, avail) = ts[t].d * sw
                      /\ (avail # DOMAIN w /\ sw > 0) =>
                            ts[t].n * SumOver(w, DOMAIN w) # ts[t].d * sw

\* A tier with one scored metric and another that has a value in the record
\* but no list in the distribution.
C7_Witness ==
    /\ Scored
    /\ \E i \in 1..3 :
         LET w == CallConfig[TierNames[i]].metrics
         IN /\ \E m \in DOMAIN w : Available(m) /\ Val(Fr.metric_scores)[m] > 0
            /\ \E m \in DOMAIN w :
                 PlayerGet(player_metrics, m) # None /\ m \notin DOMAIN CallDist

(* C8: for a non-null result, overall_score is clip(base_score +           *)
(* discipline_malus, 0, 100) rounded to one decimal: it is a whole number  *)
(* of tenths within half a tenth of the clipped sum, where                 *)
(* discipline_malus is the returned malus.                                 *)
C8_OverallFormula ==
    (Called /\ Ret.overall_score # None) =>
      LET d == Val(Fr.base_score).d
          clipped == IF UnclippedNum < 0 THEN 0
                     ELSE IF UnclippedNum > 1000 * d THEN 1000 * d
                     ELSE UnclippedNum
          diff == Val(Ret.overall_score) * d - clipped
      IN /\ d > 0
         /\ 2 * diff <= d
         /\ 2 * diff >= -d

\* A non-null result whose malus is not zero and whose sum is not clipped.
C8_Witness ==
    /\ Called
    /\ Ret.overall_score # None
    /\ Val(Ret.discipline_malus) < 0
    /\ UnclippedNum > 0
    /\ Val(Ret.overall_score) * Val(Fr.base_score).d # Val(Fr.base_score).n

C10_TableRole(k) ==
    IF k = "goalkeeper" THEN "Goalkeeper"
    ELSE IF k \in {"defender", "centre-back", "center-back", "right-back",
                   "left-back"} THEN "Defender"
    ELSE IF k \in {"midfielder", "defensive midfield", "central midfield",
                   "attacking midfield", "right midfield", "left midfield"}
         THEN "Midfielder"
    ELSE "Attacker"

C10_NormalizeTotal ==
    normalized # None =>
      /\ Val(normalized) \in {"Goalkeeper", "Defender", "Midfielder", "Attacker"}
      /\ \A k \in DOMAIN _POSITION_MAP, c \in Casings,
            l \in 0..MaxPad, r \in 0..MaxPad :
           raw = Some(Variant(k, c, l, r)) => Val(normalized) = C10_TableRole(k)
      /\ (raw = None \/ Val(raw) \in UnknownLabels) =>
           Val(normalized) = "Midfielder"

\* A padded, upper-case label of the table mapped to a role other than the
\* fallback.
C10_Witness ==
    /\ raw = Some(" LEFT WINGER" \o " ")
    /\ normalized = Some("Attacker")

(* C16: when none of the tiers A, B, C of the role has an available metric *)
(* score, the call returns the all-null result (discipline_malus and       *)
(* reliability_index null too), even with minutes >= 300 and a non-empty   *)
(* role distribution.                                                      *)
C16_NoTierScoreNull ==
    (/\ Called
     /\ ArgMinutes # None
     /\ Val(ArgMinutes) >= 300
     /\ CallDist # EmptyDict
     /\ \A m \in AllTierMetrics(CallConfig) : ~Available(m)) =>
      /\ Ret = null_result
      /\ Fr.reached = "tiers"

\* The distribution has no minutes list and the record no other tier metric
\* with a list, but a card rate that the malus loop would have used.
C16_Witness ==
    /\ Called
    /\ ArgMinutes # None
    /\ Val(ArgMinutes) >= 300
    /\ CallDist # EmptyDict
    /\ \A m \in AllTierMetrics(CallConfig) : ~Available(m)
    /\ Available("yellow_per_90")
    /\ Fr.reached = "tiers"
    /\ Ret.discipline_malus = None
    /\ Ret.reliability_index = None

(* Helper claims: the probe is a finished call of the named function. *)
Probed(fn) == probe # None /\ Val(probe).fn = fn /\ Val(probe).out # None
ProbeArgs == Val(probe).args
ProbeOut == Val(Val(probe).out)

\* Number of elements of the list that satisfy Test.
CountIn(list, Test(_)) == Cardinality({i \in DOMAIN list : Test(list[i])})

\* (count strictly below v + 0.5 * count equal to v) / n * 100 in tenths,
\* rounded, from the counts themselves.
MidrankOf(v, list) ==
    Round((2 * CountIn(list, LAMBDA x : x < v) + CountIn(list, LAMBDA x : x = v)) * 500,
          Len(list))

(* C17: for a non-empty ascending list, _empirical_percentile(v, list) is  *)
(* (count strictly below v + 0.5 * count equal to v) / n * 100 rounded to  *)
(* one decimal, lies in [0, 100], and does not decrease when v grows.      *)
C17_PercentileMidrankMonotone ==
    Probed("_empirical_percentile") =>
      /\ ProbeOut.v = MidrankOf(ProbeArgs.v, ProbeArgs.sorted_values)
      /\ ProbeOut.v \in 0..1000
      /\ ProbeArgs.v <= ProbeArgs.w => ProbeOut.v <= ProbeOut.w

\* A list with ties, a value that occurs twice in it and a larger value
\* that occurs once: 25.0 and 62.5.
C17_Witness ==
    /\ Probed("_empirical_percentile")
    /\ ProbeArgs.sorted_values = <<1, 1, 2, 3>>
    /\ ProbeArgs.v = 1
    /\ ProbeArgs.w = 2
    /\ ProbeOut = [v |-> 250, w |-> 625]

\* The probe looked up the middle element of an odd-length list.
MedianProbe ==
    /\ Probed("_empirical_percentile")
    /\ Len(ProbeArgs.sorted_values) % 2 = 1
    /\ ProbeArgs.v = ProbeArgs.sorted_values[(Len(ProbeArgs.sorted_values) + 1) \div 2]

(* C18 (as claimed): for every odd-length ascending list, ties allowed,    *)
(* _empirical_percentile of the middle element is exactly 50.0.            *)
C18_MedianIsFifty ==
    MedianProbe => ProbeOut.v = 500

(* C18 (amended): for every odd-length ascending list in which as many     *)
(* elements are strictly below the middle element as strictly above it (in *)
(* particular when no other element equals it), _empirical_percentile of   *)
(* the middle element is exactly 50.0.                                     *)
C18_BalancedMedianIsFifty ==
    (/\ MedianProbe
     /\ CountIn(ProbeArgs.sorted_values, LAMBDA x : x < ProbeArgs.v)
          = CountIn(ProbeArgs.sorted_values, LAMBDA x : x > ProbeArgs.v))
    => ProbeOut.v = 500

\* The middle element of a list with ties: in <<1, 2, 2>> the 2 in the middle
\* has one element below and none above and gets 66.7; in the balanced
\* <<2, 2, 2>> it gets 50.0.
C18_Witness ==
    /\ MedianProbe
    /\ ProbeArgs.sorted_values = <<2, 2, 2>>
    /\ ProbeOut.v = 500

(* C19: _shrink(p, minutes) is 50 + min(1, minutes / 1200) * (p - 50)      *)
(* rounded to one decimal; at minutes = 0 it is exactly 50.0 for every p,  *)
(* and at every minutes >= 1200 it is p.                                   *)
C19_ShrinkTowardsFifty ==
    Probed("_shrink") =>
      LET p == ProbeArgs.percentile
          minutes == ProbeArgs.minutes
          \* 1200 times the unrounded value, in tenths
          exact == IF minutes >= 1200 THEN 1200 * p
                   ELSE 1200 * 500 + minutes * (p - 500)
      IN /\ 2 * (1200 * ProbeOut - exact) \in (-1200)..1200
         /\ minutes = 0 => ProbeOut = 500
         /\ minutes >= 1200 => ProbeOut = p

\* Half reliability: percentile 75.5 at 600 minutes is pulled to 62.8 (the
\* unrounded value is 62.75).
C19_Witness ==
    /\ Probed("_shrink")
    /\ ProbeArgs.percentile = 755
    /\ ProbeArgs.minutes = 600
    /\ ProbeOut = 628

\* The element at 0-based position k of the sorted list, from the counts.
KthSmallest(list, k) ==
    CHOOSE x \in {list[i] : i \in DOMAIN list} :
        /\ CountIn(list, LAMBDA y : y < x) <= k
        /\ k < CountIn(list, LAMBDA y : y <= x)

(* C20: _winsorize keeps the number of values; for n >= 10 every output    *)
(* value lies between the values at the 1st- and 99th-percentile positions *)
(* of the sorted input and a value already inside stays as it is; for      *)
(* n < 10 the output is the input.                                         *)
C20_WinsorizeClips ==
    Probed("_winsorize") =>
      LET values == ProbeArgs.values
          n == Len(values)
      IN /\ Len(ProbeOut) = n
         /\ n < 10 => ProbeOut = values
         /\ n >= 10 =>
              LET lo == KthSmallest(values, n \div 100)
                  hi == KthSmallest(values, Min2(n - 1, (99 * n) \div 100))
              IN \A i \in 1..n :
                   /\ lo <= ProbeOut[i]
                   /\ ProbeOut[i] <= hi
                   /\ (lo <= values[i] /\ values[i] <= hi) => ProbeOut[i] = values[i]

\* An unsorted list of 101 values with an outlier at each end: the low one
\* is raised, the high one lowered, the length stays 101.
C20_Witness ==
    /\ Probed("_winsorize")
    /\ Len(ProbeArgs.values) = 101
    /\ Len(ProbeOut) = 101
    /\ ProbeArgs.values[2] = -1000
    /\ ProbeOut[2] = 0
    /\ ProbeArgs.values[101] = 1000
    /\ ProbeOut[101] = 900
    /\ ProbeOut[3] = ProbeArgs.values[3]

Ascending(list) == \A i \in 1..(Len(list) - 1) : list[i] <= list[i + 1]

(* C21: every metric list of every role distribution returned by           *)
(* build_role_distributions is in ascending order, also when the values    *)
(* were winsorized.                                                        *)
C21_ListsAscending ==
    (JustBuilt /\ Val(db).up) =>
      \A role \in DOMAIN role_dists : \A metric \in DOMAIN role_dists[role] :
        Ascending(role_dists[role][metric])

\* A season of 101 Attackers whose goal rates come in no order and were
\* clipped at both ends: the list starts and ends with a repeated value.
C21_Witness ==
    /\ JustBuilt
    /\ Val(db).up
    /\ Len(BuiltFrom) = 101
    /\ ~Ascending(MetricValuesOf(DerivedRows, "goals_per_90"))
    /\ Len(role_dists["Attacker"]["goals_per_90"]) = 101
    /\ role_dists["Attacker"]["goals_per_90"][1] = 100
    /\ role_dists["Attacker"]["goals_per_90"][2] = 100
    /\ role_dists["Attacker"]["goals_per_90"][101] = 1100
    /\ role_dists["Attacker"]["goals_per_90"][100] = 1100

RECURSIVE Gcd(_, _)
Gcd(a, b) == IF b = 0 THEN a ELSE Gcd(b, a % b)

\* An exact fraction in lowest terms.
Lowest(f) ==
    LET g == Gcd(f.d, f.n)
    IN [n |-> f.n \div g, d |-> f.d \div g]

\* The least common multiple of the values of f on S.
RECURSIVE LcmOver(_, _)
LcmOver(f, S) ==
    IF S = {} THEN 1
    ELSE LET x == CHOOSE y \in S : TRUE
             rest == LcmOver(f, S \ {x})
         IN (f[x] \div Gcd(f[x], rest)) * rest

\* The sum of weight * score over tiers, divided by total_weight, in lowest
\* terms; the scores are the exact fractions of tier_scores.
WeightedTierMean(tier_scores, tiers, total_weight) ==
    LET ts == [t \in tiers |-> Lowest(tier_scores[t])]
        common == LcmOver([t \in tiers |-> ts[t].d], tiers)
        weighted == SumOver([t \in tiers |->
                               CallConfig[t].weight * ts[t].n * (common \div ts[t].d)],
                            tiers)
    IN Lowest([n |-> weighted, d |-> common * total_weight])

TierWeights(tiers) == SumOver([t \in tiers |-> CallConfig[t].weight], tiers)

\* The tiers of the role with at least one available metric.
TiersWithData ==
    {TierNames[i] : i \in {j \in 1..Len(TierNames) :
        \E m \in DOMAIN CallConfig[TierNames[j]].metrics : Available(m)}}

(* C22: base_score is the mean of the tier scores of exactly the tiers     *)
(* that produced a score, weighted by the tiers' group weights; a tier     *)
(* without an available metric is in neither numerator nor denominator,    *)
(* so the result differs from the mean with that tier counted as zero.     *)
C22_BaseScoreOverScoredTiers ==
    (Called /\ Fr.reached = "return") =>
      LET tier_scores == Val(Fr.tier_scores)
          present == TiersWithData
          base_score == Lowest(Val(Fr.base_score))
          all_weights == TierWeights({"tier_a", "tier_b", "tier_c"})
      IN /\ DOMAIN tier_scores = present
         /\ present # {}
         /\ base_score = WeightedTierMean(tier_scores, present, TierWeights(present))
         /\ (TierWeights(present) < all_weights /\ base_score.n > 0) =>
               base_score # WeightedTierMean(tier_scores, present, all_weights)

\* Tier A and tier B both produced a score, tier C none, and the two tier
\* scores differ.
C22_Witness ==
    /\ Called
    /\ Fr.reached = "return"
    /\ TiersWithData = {"tier_a", "tier_b"}
    /\ Val(Fr.tier_scores).tier_a.n * Val(Fr.tier_scores).tier_b.d
         # Val(Fr.tier_scores).tier_b.n * Val(Fr.tier_scores).tier_a.d
    /\ Val(Fr.base_score).n > 0

Abs(x) == IF x < 0 THEN 0 - x ELSE x

\* The malus metrics of the role with a value in the record and a non-empty
\* list in the distribution.
MalusAvailable == {m \in DOMAIN CallConfig.malus : Available(m)}

\* max_penalty * empirical percentile * min(1200, minutes): the contribution
\* of one malus metric in tenths of a point times 100 * 1200.
C23_Term(m) ==
    CallConfig.malus[m]
      * _empirical_percentile(Val(player_metrics[m]), CallDist[m])
      * Min2(1200, Val(ArgMinutes))

(* C23: the discipline malus is the sum, over exactly the malus metrics    *)
(* with a value and a distribution list, of max_penalty * (p / 100) *      *)
(* reliability with p the plain empirical percentile (neither inverted nor *)
(* shrunk), floored at -10 and rounded to one decimal; a malus metric      *)
(* without a value or without a list contributes nothing and has no        *)
(* breakdown entry.                                                        *)
C23_MalusIsPenaltySum ==
    (Called /\ Fr.reached = "return") =>
      LET contributing == MalusAvailable
          total == SumOver([m \in contributing |-> C23_Term(m)], contributing)
          floored == Max2(-100 * 100 * 1200, total)
          reported == Val(Ret.discipline_malus)
          breakdown == Val(Ret.breakdown)
      IN /\ Val(Fr.malus) = total
         /\ 2 * Abs(reported * 100 * 1200 - floored) <= 100 * 1200
         /\ {m \in DOMAIN breakdown : breakdown[m].tier = "malus"} = contributing
         /\ \A m \in contributing :
              /\ breakdown[m].percentile
                   = _empirical_percentile(Val(player_metrics[m]), CallDist[m])
              /\ breakdown[m].max_penalty = CallConfig.malus[m]
         /\ contributing = {} => reported = 0

\* At 300 minutes the yellow-card rate is at the top of its list and the
\* red-card rate has a value but no list: the malus is -4 * 1.0 * 0.25 = -1.0.
C23_Witness ==
    /\ Called
    /\ Fr.reached = "return"
    /\ ArgMinutes = Some(300)
    /\ MalusAvailable = {"yellow_per_90"}
    /\ PlayerGet(player_metrics, "red_per_90") # None
    /\ Val(Ret.breakdown)["yellow_per_90"].percentile = 1000
    /\ Ret.discipline_malus = Some(-10)

\* The tier metrics of the role that are ranked against a list.
RankedMetrics ==
    {m \in AllTierMetrics(CallConfig) \ DIRECT_SCORE_METRICS : Available(m)}

\* The score the same call gives metric m when the record holds v for it.
ScoreWithValue(m, v) ==
    Val(calculate_player_score([player_metrics EXCEPT ![m] = Some(v)],
                               role_dists, position).ret.breakdown)[m].score

(* C24: for the inverse metric goals_conceded_per_90 the percentile that   *)
(* is scored and reported in the breakdown is 100 minus the empirical      *)
(* percentile, so that a lower raw value never scores lower than a higher  *)
(* one; for every other ranked metric the empirical percentile is used as  *)
(* is.                                                                     *)
C24_InversePercentileFlipped ==
    Scored =>
      LET breakdown == IF Fr.reached = "return" THEN Val(Ret.breakdown) ELSE EmptyDict
          scores == Val(Fr.metric_scores)
      IN \A m \in RankedMetrics :
           LET ep == _empirical_percentile(Val(player_metrics[m]), CallDist[m])
               used == IF m = "goals_conceded_per_90" THEN 1000 - ep ELSE ep
           IN /\ m \in DOMAIN scores
              /\ scores[m] = _shrink(used, Val(ArgMinutes))
              /\ Fr.reached = "return" =>
                   /\ breakdown[m].percentile = used
                   /\ breakdown[m].score = scores[m]
                   /\ m = "goals_conceded_per_90" =>
                        \A v \in RecordValues :
                          /\ v < Val(player_metrics[m]) => ScoreWithValue(m, v) >= scores[m]
                          /\ v > Val(player_metrics[m]) => ScoreWithValue(m, v) <= scores[m]

\* A goalkeeper at full reliability conceding 0.3 per 90 against the list
\* <<0.3, 1.2>>: empirical percentile 25.0, reported and scored as 75.0, while
\* the saves rate 0.3 against the same list is reported as 25.0; conceding
\* 1.2 instead scores 25.0.
C24_Witness ==
    /\ Called
    /\ Fr.reached = "return"
    /\ ArgMinutes = Some(1200)
    /\ {"goals_conceded_per_90", "saves_per_90"} \subseteq RankedMetrics
    /\ player_metrics["goals_conceded_per_90"] = Some(300)
    /\ CallDist["goals_conceded_per_90"] = <<300, 1200>>
    /\ Val(Ret.breakdown)["goals_conceded_per_90"].percentile = 750
    /\ Val(Ret.breakdown)["goals_conceded_per_90"].score = 750
    /\ Val(Ret.breakdown)["saves_per_90"].percentile = 250
    /\ ScoreWithValue("goals_conceded_per_90", 1200) = 250

CategoryNames == {"attack", "creation", "defense", "impact"}

\* The category score as the result reports it.
ReportedCategory(cat) ==
    CASE cat = "attack" -> Ret.attack_score
      [] cat = "creation" -> Ret.creation_score
      [] cat = "defense" -> Ret.defense_score
      [] cat = "impact" -> Ret.impact_score

\* The metrics of the category among the role's tier metrics that have a
\* value and (unless direct) a list.
CategoryMembers(cat) ==
    {m \in CATEGORY_METRICS[cat] \cap AllTierMetrics(CallConfig) : Available(m)}

(* C25: each of the four category scores is the unweighted mean, rounded   *)
(* to one decimal, of the per-metric scores of the tier metrics that       *)
(* belong to the category, and null exactly when there is none; a malus    *)
(* metric or a metric outside the role's tiers never enters, even when the *)
(* record and the distribution carry it.                                   *)
C25_CategoryIsPlainMean ==
    (Called /\ Fr.reached = "return") =>
      \A cat \in CategoryNames :
        LET members == CategoryMembers(cat)
            scores == Val(Fr.metric_scores)
            sum == SumOver([m \in members |-> scores[m]], members)
        IN /\ members \subseteq DOMAIN scores
           /\ (ReportedCategory(cat) = None) <=> (members = {})
           /\ members # {} =>
                2 * Abs(Val(ReportedCategory(cat)) * Cardinality(members) - sum)
                  <= Cardinality(members)

\* A goalkeeper with two defense metrics of different scores: defense_score
\* is their mean, strictly between the two, and attack_score is null.
C25_Witness ==
    /\ Called
    /\ Fr.reached = "return"
    /\ CategoryMembers("defense") = {"saves_per_90", "goals_conceded_per_90"}
    /\ Val(Fr.metric_scores)["saves_per_90"] < Val(Ret.defense_score)
    /\ Val(Ret.defense_score) < Val(Fr.metric_scores)["goals_conceded_per_90"]
    /\ Ret.attack_score = None

\* A goalkeeper whose record and distribution carry goals_per_90 and
\* yellow_per_90: neither is a tier metric of the role, attack_score is null.
C25_WitnessOutsideTiers ==
    /\ Called
    /\ Fr.reached = "return"
    /\ CallRole = "Goalkeeper"
    /\ Available("goals_per_90")
    /\ Available("yellow_per_90")
    /\ Ret.attack_score = None
    /\ Ret.impact_score # None

\* The last row get_team_players enriched.
Enriched == service # None /\ Val(service).scores # None
EnrichedRaw == Val(Val(service).raw)
EnrichedDerived == Val(Val(service).derived)
EnrichedScores == Val(Val(service).scores)
EnrichedDist == DictGet(role_dists, Service_RoleOf(EnrichedRaw), EmptyDict)
EnrichedQualified ==
    /\ Enriched
    /\ EnrichedRaw["minutes"] # None
    /\ Val(EnrichedRaw["minutes"]) >= 300

\* 85.0 for a captain, 40.0 for everybody else.
FixedCaptainValue == IF bool(EnrichedRaw["captain"]) THEN 850 ELSE 400

\* The breakdown reports captaincy with the fixed value as its percentile
\* and the shrunk fixed value as its score.
CaptainScoredDirectly ==
    /\ EnrichedScores.breakdown # None
    /\ "captain" \in DOMAIN Val(EnrichedScores.breakdown)
    /\ Val(EnrichedScores.breakdown)["captain"].value = FixedCaptainValue
    /\ Val(EnrichedScores.breakdown)["captain"].percentile = FixedCaptainValue
    /\ Val(EnrichedScores.breakdown)["captain"].score
         = _shrink(FixedCaptainValue, Val(EnrichedRaw["minutes"]))

CaptainNeverCollected ==
    \A role \in DOMAIN role_dists : "captain" \notin DOMAIN role_dists[role]

(* C26 as stated: captaincy is derived as 85.0 or 40.0, reported with that *)
(* value as its percentile and scored as shrink(value, minutes) whether or *)
(* not the role distribution holds any list, and no role distribution      *)
(* collects it.                                                            *)
C26_CaptainScoredWithOrWithoutLists ==
    EnrichedQualified =>
      /\ EnrichedDerived.captain = Some(FixedCaptainValue)
      /\ CaptainScoredDirectly
      /\ CaptainNeverCollected

(* C26, amended: captaincy is derived as 85.0 or 40.0 and no role          *)
(* distribution collects it; for an athlete with at least 300 minutes      *)
(* whose role distribution holds at least one list it is reported with     *)
(* the fixed value as its percentile and scored as shrink(value, minutes), *)
(* although that distribution holds no list for it; against a role         *)
(* distribution without any list the whole result is null.                 *)
C26_CaptainScoredAgainstNonEmptyDist ==
    Enriched =>
      /\ EnrichedDerived.captain = Some(FixedCaptainValue)
      /\ CaptainNeverCollected
      /\ EnrichedQualified =>
           IF EnrichedDist # EmptyDict
           THEN CaptainScoredDirectly
           ELSE EnrichedScores = Service_null_result

\* A non-captain with 300 minutes scored against the lists of the role:
\* percentile 40.0, score 50 + 0.25 * (40 - 50) = 47.5, the only tier C score.
C26_Witness ==
    /\ EnrichedQualified
    /\ Val(db).up
    /\ EnrichedRaw["minutes"] = Some(300)
    /\ ~bool(EnrichedRaw["captain"])
    /\ "goals_per_90" \in DOMAIN EnrichedDist
    /\ Val(EnrichedScores.breakdown)["captain"].percentile = 400
    /\ Val(EnrichedScores.breakdown)["captain"].score = 475
    /\ {m \in DOMAIN Val(EnrichedScores.breakdown) :
          Val(EnrichedScores.breakdown)[m].tier = "tier_c"} = {"captain"}

\* -10 * min(1, minutes / 1200) in tenths of a point, times 1200.
MalusBoundNum == -100 * Min2(1200, Val(ArgMinutes))

(* C27 as stated: whenever the result is non-null the reported             *)
(* discipline_malus is at least -10 * min(1, minutes / 1200).              *)
C27_ReportedMalusAboveBound ==
    (Called /\ Ret.discipline_malus # None) =>
      Val(Ret.discipline_malus) * 1200 >= MalusBoundNum

(* C27, amended: whenever the result is non-null, the malus before         *)
(* rounding is at least -10 * min(1, minutes / 1200) and the reported,     *)
(* rounded discipline_malus is lower than that bound by at most 0.05; at   *)
(* exactly 300 minutes it is never below -2.5; the sum before rounding     *)
(* reaches the floor of -10 only at full reliability.                      *)
C27_MalusBoundedByReliability ==
    (Called /\ Ret.discipline_malus # None) =>
      /\ Val(Fr.malus) >= MalusBoundNum * 100
      /\ 2 * (Val(Ret.discipline_malus) * 1200 - MalusBoundNum) >= -1200
      /\ ArgMinutes = Some(300) => Val(Ret.discipline_malus) >= -25
      /\ Val(Fr.malus) <= -100 * MalusDen => Val(ArgMinutes) >= 1200

\* 307 minutes, both card rates above every value of their lists: the sum is
\* exactly the bound, -2.5583..., and is reported as -2.6.
C27_Witness ==
    /\ Called
    /\ Fr.reached = "return"
    /\ ArgMinutes = Some(307)
    /\ MalusAvailable = {"yellow_per_90", "red_per_90"}
    /\ Val(Fr.malus) = MalusBoundNum * 100
    /\ Ret.discipline_malus = Some(-26)

\* The smallest and the largest of the per-metric scores of the call.
SmallestScore ==
    LET scores == Val(Fr.metric_scores)
    IN CHOOSE x \in {scores[m] : m \in DOMAIN scores} :
         \A m \in DOMAIN scores : x <= scores[m]
LargestScore ==
    LET scores == Val(Fr.metric_scores)
    IN CHOOSE x \in {scores[m] : m \in DOMAIN scores} :
         \A m \in DOMAIN scores : x >= scores[m]

\* lo <= f.n / f.d <= hi
FractionWithin(f, lo, hi) == lo * f.d <= f.n /\ f.n <= hi * f.d

(* C28: every per-metric score lies in [0, 100], on the same side of 50 as *)
(* its percentile and no farther from 50 than the percentile; every tier   *)
(* score and the base score lie between the smallest and the largest       *)
(* per-metric score of the call; every non-null category score lies in     *)
(* [0, 100].                                                               *)
C28_ScoresWithinBounds ==
    (Called /\ Fr.reached = "return") =>
      LET scores == Val(Fr.metric_scores)
          breakdown == Val(Ret.breakdown)
          tier_scores == Val(Fr.tier_scores)
      IN /\ \A m \in DOMAIN scores :
              LET pct == breakdown[m].percentile
              IN /\ scores[m] \in 0..1000
                 /\ pct >= 500 => (500 <= scores[m] /\ scores[m] <= pct)
                 /\ pct <= 500 => (pct <= scores[m] /\ scores[m] <= 500)
         /\ \A t \in DOMAIN tier_scores :
              FractionWithin(tier_scores[t], SmallestScore, LargestScore)
         /\ FractionWithin(Val(Fr.base_score), SmallestScore, LargestScore)
         /\ \A cat \in CategoryNames :
              ReportedCategory(cat) # None => Val(ReportedCategory(cat)) \in 0..1000

\* At 300 minutes one metric at percentile 100 scores 62.5 and another at
\* percentile 0 scores 37.5; the base score lies strictly between the two.
C28_Witness ==
    /\ Called
    /\ Fr.reached = "return"
    /\ ArgMinutes = Some(300)
    /\ \E m \in DOMAIN Val(Fr.metric_scores) :
         Val(Ret.breakdown)[m].percentile = 1000 /\ Val(Fr.metric_scores)[m] = 625
    /\ \E m \in DOMAIN Val(Fr.metric_scores) :
         Val(Ret.breakdown)[m].percentile = 0 /\ Val(Fr.metric_scores)[m] = 375
    /\ SmallestScore * Val(Fr.base_score).d < Val(Fr.base_score).n
    /\ Val(Fr.base_score).n < LargestScore * Val(Fr.base_score).d

\* The call scored an entry of the cache without naming a role.
ScoredCacheEntry ==
    /\ Called
    /\ player_cache # None
    /\ position = None
    /\ \E id \in DOMAIN Val(player_cache) : Val(player_cache)[id] = player_metrics

\* The row the cache entry of id was derived from: the last one with that id.
CachedRow(id) ==
    LET rows == {i \in DOMAIN BuiltFrom : BuiltFrom[i]["api_player_id"] = Some(id)}
    IN BuiltFrom[CHOOSE i \in rows : \A j \in rows : j <= i]

(* C29: for every entry of the player-metrics cache, calculate_player_score *)
(* called without a role override scores the entry against the             *)
(* distribution of the role the builder grouped its row into: the cached   *)
(* position is the normalised label of the row, always one of the four     *)
(* roles, so the fallback to Midfielder is never taken for it, and the     *)
(* result depends on no other role's distribution.                         *)
C29_CacheEntryScoredInItsRole ==
    ScoredCacheEntry =>
      \A id \in DOMAIN Val(player_cache) :
        Val(player_cache)[id] = player_metrics =>
          LET role == normalize_position(CachedRow(id)["position"])
              own == IF role \in DOMAIN role_dists
                     THEN (role :> role_dists[role]) ELSE EmptyDict
          IN /\ role \in Roles
             /\ player_metrics["position"] = Some(role)
             /\ ArgRole = role
             /\ Fr.pos = role
             /\ Ret = calculate_player_score(player_metrics, own, None).ret

\* The row labelled " striker" was grouped with the Attackers; its cache
\* entry is scored as an Attacker, up to the result.
C29_Witness ==
    /\ ScoredCacheEntry
    /\ \E id \in DOMAIN Val(player_cache) :
         /\ Val(player_cache)[id] = player_metrics
         /\ CachedRow(id)["position"] = Some(" striker")
    /\ Fr.pos = "Attacker"
    /\ Fr.reached = "return"
    /\ Ret.overall_score # None

\* The tier metrics of the role that the builder never collects and that are
\* not scored directly.
UnrankableTierMetrics ==
    AllTierMetrics(CallConfig) \ (DISTRIBUTABLE_METRICS \cup DIRECT_SCORE_METRICS)

(* C30: against the distributions build_role_distributions produced, a     *)
(* tier metric that is neither distributable nor scored directly never     *)
(* receives a score, whatever value the record holds for it; hence for     *)
(* Goalkeepers and Attackers tier C never produces a tier score and the    *)
(* base score is the weighted mean of the scores of tiers A and B alone.   *)
C30_UnrankableNeverScored ==
    (Scored /\ player_cache # None) =>
      /\ \A m \in UnrankableTierMetrics :
           /\ m \notin DOMAIN CallDist
           /\ m \notin DOMAIN Val(Fr.metric_scores)
           /\ Fr.reached = "return" => m \notin DOMAIN Val(Ret.breakdown)
      /\ (CallRole \in {"Goalkeeper", "Attacker"} /\ Fr.reached = "return") =>
           LET tier_scores == Val(Fr.tier_scores)
           IN /\ "tier_c" \notin DOMAIN tier_scores
              /\ DOMAIN tier_scores \subseteq {"tier_a", "tier_b"}
              /\ Lowest(Val(Fr.base_score))
                   = WeightedTierMean(tier_scores, DOMAIN tier_scores,
                                      TierWeights(DOMAIN tier_scores))

\* A goalkeeper whose record holds a value for match_decisive_saves, the only
\* tier C metric of the role, scored against the lists of three goalkeepers:
\* tiers A and B produce a score, tier C none.
C30_Witness ==
    /\ Scored
    /\ player_cache # None
    /\ Fr.reached = "return"
    /\ CallRole = "Goalkeeper"
    /\ PlayerGet(player_metrics, "match_decisive_saves") # None
    /\ DOMAIN Val(Fr.tier_scores) = {"tier_a", "tier_b"}

\* An attacker of the season with a value for match_winning_goals from the
\* match-impact data: scored, without a tier C score.
C30_WitnessAttacker ==
    /\ Scored
    /\ player_cache # None
    /\ Fr.reached = "return"
    /\ CallRole = "Attacker"
    /\ \E id \in DOMAIN Val(player_cache) : Val(player_cache)[id] = player_metrics
    /\ PlayerGet(player_metrics, "match_winning_goals") # None
    /\ "tier_c" \notin DOMAIN Val(Fr.tier_scores)

====
